---------------------------- MODULE Spec2Model ----------------------------
(***************************************************************************)
(* A model of the multi-source acquisition pipeline of PocketIntel-Backend *)
(* (charts/connectors/*.py and main.py): the two price fallback chains     *)
(* (Tiingo -> Polygon with a parquet file cache, yfinance -> Polygon       *)
(* without one), the /analyze fan-out, and the 5-day news sentiment fetch. *)
(***************************************************************************)
EXTENDS Integers, Sequences, FiniteSets, TLC

(***************************************************************************)
(* Bounds of the model.                                                    *)
(***************************************************************************)
\* The wall clock advances in steps of TickHours hours, up to MaxNow hours.
TickHours == 12
MaxNow == 24
\* The news provider returns at most MaxArticles articles over one window.
MaxArticles == 2
\* classify_headlines_with_vader is given at most MaxHeadlines snippets.
MaxHeadlines == 2
\* A provider payload given to a normalisation has at most MaxRows rows.
MaxRows == 2

(***************************************************************************)
(* Data frames.  A frame is [cols, rows]: the column names in order and    *)
(* the rows, each a function from column name to a cell.  A cell is <<v>>  *)
(* for the value v and <<>> for NaN / None.  Timestamps are whole hours    *)
(* since an epoch; a calendar date is a whole number of days.              *)
(***************************************************************************)
NaN == <<>>

Val(v) == <<v>>

Range(s) == {s[i] : i \in DOMAIN s}

NoFrame == [cols |-> <<>>, rows |-> <<>>]

\* pandas: DataFrame.empty
IsEmpty(df) == Len(df.rows) = 0 \/ Len(df.cols) = 0

\* pandas: df[names], defined when every name is a column (KeyError otherwise)
HasCols(df, names) == Range(names) \subseteq Range(df.cols)

SelectCols(df, names) ==
    [cols |-> names,
     rows |-> [i \in DOMAIN df.rows |-> [c \in Range(names) |-> df.rows[i][c]]]]

\* pandas: df.rename(columns=m), m a function from old names to new names
NewName(m, c) == IF c \in DOMAIN m THEN m[c] ELSE c

OldName(df, m, c) == CHOOSE o \in Range(df.cols) : NewName(m, o) = c

RenameCols(df, m) ==
    LET cols == [i \in DOMAIN df.cols |-> NewName(m, df.cols[i])]
    IN [cols |-> cols,
        rows |-> [i \in DOMAIN df.rows |->
                    [c \in Range(cols) |-> df.rows[i][OldName(df, m, c)]]]]

\* pandas: .dt.date, the calendar day of a timestamp given in hours
DateOf(t) == t \div 24

\* pandas: df[col] = pd.to_datetime(df[col]).dt.date, NaN staying NaN (NaT)
ToDate(df, col) ==
    [cols |-> df.cols,
     rows |-> [i \in DOMAIN df.rows |->
                 [c \in Range(df.cols) |->
                    IF c = col /\ df.rows[i][c] # NaN
                    THEN Val(DateOf(df.rows[i][c][1]))
                    ELSE df.rows[i][c]]]]

\* pandas: df[new] = df[old]: a new last column, or the column new replaced
CopyCol(df, new, old) ==
    LET cols == IF new \in Range(df.cols) THEN df.cols ELSE Append(df.cols, new)
    IN [cols |-> cols,
        rows |-> [i \in DOMAIN df.rows |->
                    [c \in Range(cols) |-> IF c = new THEN df.rows[i][old] ELSE df.rows[i][c]]]]

RECURSIVE DropNaRows(_, _)
DropNaRows(rows, names) ==
    IF rows = <<>> THEN <<>>
    ELSE IF \A c \in names : Head(rows)[c] # NaN
         THEN <<Head(rows)>> \o DropNaRows(Tail(rows), names)
         ELSE DropNaRows(Tail(rows), names)

\* pandas: df.dropna(subset=names)
DropNa(df, names) == [cols |-> df.cols, rows |-> DropNaRows(df.rows, Range(names))]



\* pandas: df.reset_index(), the index becoming the first column
ResetIndex(raw) == [cols |-> <<raw.index>> \o raw.cols, rows |-> raw.rows]

\* str.lower and str.capitalize on the column names the providers use
Lower(c) ==
    CASE c = "Date" -> "date"
      [] c = "Close" -> "close"
      [] c \in {"High", "HIGH"} -> "high"
      [] c = "Low" -> "low"
      [] OTHER -> c

Capitalize(c) ==
    CASE c \in {"date", "Date"} -> "Date"
      [] c \in {"close", "Close"} -> "Close"
      [] c \in {"high", "High", "HIGH"} -> "High"
      [] c \in {"low", "Low"} -> "Low"
      [] OTHER -> c

Row(names, vals) == [c \in Range(names) |-> vals[CHOOSE i \in DOMAIN names : names[i] = c]]

Ok(df) == [ok |-> TRUE, err |-> "", df |-> df]

Err(e) == [ok |-> FALSE, err |-> e, df |-> NoFrame]

expected_cols(full_ohlc) ==
    IF full_ohlc THEN <<"Date", "High", "Low", "Close">> ELSE <<"Date", "Close">>

(***************************************************************************)
(* Tiingo: what tiingo_client.get_dataframe can answer, and the            *)
(* normalisation of fetch_from_tiingo.                                     *)
(***************************************************************************)
TgNames == <<"date", "close", "high", "low", "volume">>

tgA == [index |-> "date", cols |-> Tail(TgNames),
        rows |-> << Row(TgNames, <<Val(10), Val(5), Val(7), Val(3), Val(100)>>),
                    Row(TgNames, <<Val(34), Val(6), Val(8), Val(4), Val(100)>>) >>]

tgB == [index |-> "date", cols |-> Tail(TgNames),
        rows |-> << Row(TgNames, <<Val(34), Val(6), Val(8), Val(4), Val(100)>>),
                    Row(TgNames, <<Val(58), Val(9), Val(9), Val(5), Val(100)>>) >>]

tgNoHL == [index |-> "date", cols |-> <<"close", "volume">>,
           rows |-> << Row(<<"date", "close", "volume">>, <<Val(10), Val(5), Val(100)>>) >>]

tgOddCase == [index |-> "date", cols |-> <<"close", "HIGH", "low">>,
              rows |-> << Row(<<"date", "close", "HIGH", "low">>,
                              <<Val(10), Val(5), Val(7), Val(3)>>) >>]

tgEmpty == [index |-> "date", cols |-> Tail(TgNames), rows |-> <<>>]

\* an answer with two rows of one day
tgTwice == [index |-> "date", cols |-> Tail(TgNames),
            rows |-> << Row(TgNames, <<Val(10), Val(5), Val(7), Val(3), Val(100)>>),
                        Row(TgNames, <<Val(14), Val(6), Val(8), Val(4), Val(100)>>) >>]

TiingoFrames == {tgA, tgB, tgNoHL, tgOddCase, tgEmpty, tgTwice}

\* the answers the chain model draws from (the normaliser sees all of TiingoFrames)
TiingoLiveFrames == {tgA, tgTwice, tgNoHL, tgEmpty}

\* a live answer: the call raises, or returns a frame
TiingoResponses ==
    {[raises |-> TRUE, df |-> tgEmpty]} \cup {[raises |-> FALSE, df |-> f] : f \in TiingoLiveFrames}

TiingoRenames == [c \in {"date", "high", "low", "close"} |-> Capitalize(c)]

TiingoNormalize(raw, full_ohlc) ==
    IF IsEmpty(raw) THEN Err("ValueError")
    ELSE LET df1 == RenameCols(ResetIndex(raw), TiingoRenames)
             expected == expected_cols(full_ohlc)
         IN IF ~HasCols(df1, <<"Date">>) THEN Err("KeyError")
            ELSE LET df2 == ToDate(df1, "Date")
                     lower == {Lower(c) : c \in Range(df2.cols)}
                     missing == {c \in Range(expected) : Lower(c) \notin lower}
                 IN IF missing # {} THEN Err("KeyError")
                    ELSE IF ~HasCols(df2, expected) THEN Err("KeyError")
                    ELSE Ok(RenameCols(SelectCols(df2, expected),
                                       [c \in Range(expected) |-> Capitalize(c)]))

(***************************************************************************)
(* Polygon: the HTTP answers and the normalisation of fetch_from_polygon   *)
(* (the same statements in both connector modules).                        *)
(***************************************************************************)
PgNames == <<"t", "o", "h", "l", "c", "v">>

pgA == [cols |-> PgNames,
        rows |-> << Row(PgNames, <<Val(10), Val(4), Val(7), Val(3), Val(5), Val(100)>>),
                    Row(PgNames, <<Val(34), Val(5), Val(8), Val(4), Val(6), Val(100)>>) >>]

pgNaN == [cols |-> PgNames,
          rows |-> << Row(PgNames, <<Val(10), Val(4), Val(7), Val(3), NaN, Val(100)>>),
                      Row(PgNames, <<Val(34), Val(5), Val(8), Val(4), Val(6), Val(100)>>) >>]

pgNoT == [cols |-> Tail(PgNames),
          rows |-> << Row(Tail(PgNames), <<Val(4), Val(7), Val(3), Val(5), Val(100)>>) >>]

PolygonFrames == {pgA, pgNaN, pgNoT}

PolygonLiveFrames == {pgA, pgNoT}

\* kind: "raise" (the request itself raises), "http" (an answer with a status)
PolygonResponses ==
    {[kind |-> "raise", status |-> 0, json |-> FALSE, results |-> NoFrame],
     [kind |-> "http", status |-> 429, json |-> TRUE, results |-> NoFrame],
     [kind |-> "http", status |-> 200, json |-> FALSE, results |-> NoFrame],
     [kind |-> "http", status |-> 200, json |-> TRUE, results |-> NoFrame]}
    \cup {[kind |-> "http", status |-> 200, json |-> TRUE, results |-> f] : f \in PolygonLiveFrames}

\* the try block around client.get: TRUE when it leaves "data" non-empty
PolygonGotData(resp) ==
    /\ resp.kind = "http"
    /\ resp.status = 200
    /\ resp.json
    /\ Len(resp.results.rows) > 0

\* the stockprice_client variant also rejects a body that is not JSON; the
\* caching variant lets response.json() raise on it: both raise
PolygonNormalize(data, full_ohlc) ==
    IF ~HasCols(data, <<"t">>) THEN Err("KeyError")
    ELSE LET df1 == ToDate(CopyCol(data, "Date", "t"), "Date")
             df2 == RenameCols(df1, [c \in {"c"} |-> "Close"])
             sel == expected_cols(full_ohlc)
         IN IF ~HasCols(df2, <<"Date", "Close">>) THEN Err("KeyError")
            ELSE LET df3 == DropNa(df2, <<"Date", "Close">>)
                 IN IF ~HasCols(df3, sel) THEN Err("KeyError")
                    ELSE Ok(SelectCols(df3, sel))

(***************************************************************************)
(* yfinance: what yf.download can answer, and the normalisation of         *)
(* get_yfinance_df.  level1 is the set of tickers of a MultiIndex answer   *)
(* ({} for flat columns); cols are the level-0 names.                      *)
(***************************************************************************)
YfNames == <<"Date", "Adj Close", "Close", "High", "Low">>

yfA == [index |-> "Date", level1 |-> {"XLK"}, cols |-> Tail(YfNames),
        rows |-> << Row(YfNames, <<Val(24), Val(5), Val(5), Val(7), Val(3)>>),
                    Row(YfNames, <<Val(48), Val(6), Val(6), NaN, Val(4)>>) >>]

yfAdjOnly == [index |-> "Date", level1 |-> {}, cols |-> <<"Adj Close">>,
              rows |-> << Row(<<"Date", "Adj Close">>, <<Val(24), Val(5)>>) >>]

yfEmpty == [index |-> "Date", level1 |-> {}, cols |-> Tail(YfNames), rows |-> <<>>]

YfFrames == {yfA, yfAdjOnly, yfEmpty}

YfResponses ==
    {[raises |-> TRUE, df |-> yfEmpty]} \cup {[raises |-> FALSE, df |-> f] : f \in YfFrames}

\* lines 59-66: xs(ticker, level=1) or get_level_values(0): the level-0 names
YfFlatten(raw, ticker) == [index |-> raw.index, cols |-> raw.cols, rows |-> raw.rows]

\* line 77 keeps the timestamps as they are (pd.to_datetime, no .dt.date)
YfNormalize(raw, ticker, full_ohlc) ==
    IF IsEmpty(raw) THEN Err("ValueError")
    ELSE LET df1 == ResetIndex(YfFlatten(raw, ticker))
             df2 == IF ~HasCols(df1, <<"Close">>) /\ HasCols(df1, <<"Adj Close">>)
                    THEN CopyCol(df1, "Close", "Adj Close")
                    ELSE df1
             expected == expected_cols(full_ohlc)
         IN IF ~HasCols(df2, expected) THEN Err("KeyError")
            ELSE Ok(SelectCols(DropNa(df2, expected), expected))


(***************************************************************************)
(* Period strings, as sequences of characters, and their parsing           *)
(* (fetch_from_tiingo lines 73-78, fetch_from_polygon lines 117-124).      *)
(***************************************************************************)
EndsWith(s, suffix) ==
    /\ Len(s) >= Len(suffix)
    /\ SubSeq(s, Len(s) - Len(suffix) + 1, Len(s)) = suffix

DropLast(s, n) == SubSeq(s, 1, Len(s) - n)

Digits == <<"0", "1", "2", "3", "4", "5", "6", "7", "8", "9">>

DigitVal(ch) == (CHOOSE i \in DOMAIN Digits : Digits[i] = ch) - 1

\* int(s) for a string of decimal digits; not ok for any other string here
RECURSIVE IntOfDigits(_)
IntOfDigits(s) ==
    IF s = <<>> THEN 0 ELSE 10 * IntOfDigits(DropLast(s, 1)) + DigitVal(s[Len(s)])

IntOf(s) ==
    IF s # <<>> /\ Range(s) \subseteq Range(Digits)
    THEN [ok |-> TRUE, n |-> IntOfDigits(s)]
    ELSE [ok |-> FALSE, n |-> 0]

ParsePeriod(period) ==
    IF EndsWith(period, <<"m", "o">>)
    THEN LET k == IntOf(DropLast(period, 2)) IN [ok |-> k.ok, days |-> k.n * 30]
    ELSE IF EndsWith(period, <<"y">>)
    THEN LET k == IntOf(DropLast(period, 1)) IN [ok |-> k.ok, days |-> k.n * 365]
    ELSE [ok |-> FALSE, days |-> 0]

\* fetch_from_polygon, lines 116-124: the lookback in days of timedelta
PolygonLookback(period) ==
    IF EndsWith(period, <<"m", "o">>)
    THEN LET months == IntOf(DropLast(period, 2)) IN [ok |-> months.ok, days |-> months.n * 30]
    ELSE IF EndsWith(period, <<"y">>)
    THEN LET years == IntOf(DropLast(period, 1)) IN [ok |-> years.ok, days |-> years.n * 365]
    ELSE [ok |-> FALSE, days |-> 0]

(***************************************************************************)
(* The state of the price fetch chains.                                    *)
(***************************************************************************)
Tasks == {"a", "b"}

Tickers == {"XLK"}

Periods == {<<"6", "m", "o">>, <<"5", "d">>}

Requests == [ticker : Tickers, period : Periods, full_ohlc : BOOLEAN]

\* "tiingo": charts.connectors.stockprice_client_tiingo (with the file cache)
\* "yfinance": charts.connectors.stockprice_client (without)
Chains == {"tiingo", "yfinance"}

MAX_CACHE_AGE_HOURS == 24

YF_ATTEMPTS == 3

get_cache_path(ticker, period, full_ohlc, source) ==
    <<source, ticker, period, IF full_ohlc THEN "ohlc" ELSE "close">>

Paths ==
    {get_cache_path(r.ticker, r.period, r.full_ohlc, s) :
        r \in Requests, s \in {"tiingo", "polygon"}}

NoFile ==
    [exists |-> FALSE, state |-> "absent", df |-> NoFrame, mtime |-> 0,
     writers |-> {}, overlap |-> FALSE]

WholeFile(df, t) ==
    [exists |-> TRUE, state |-> "complete", df |-> df, mtime |-> t,
     writers |-> {}, overlap |-> FALSE]

NoOutcome == [status |-> "none", err |-> "", df |-> NoFrame, source |-> ""]

Success(df, source) == [status |-> "ok", err |-> "", df |-> df, source |-> source]

Failure(e) == [status |-> "error", err |-> e, df |-> NoFrame, source |-> ""]

\* what get_sector_typical_prices asks for each ETF: period "6mo", full OHLC
SectorRequest == [ticker |-> "XLK", period |-> <<"6", "m", "o">>, full_ohlc |-> TRUE]

DefaultRequest == SectorRequest

\* task "a" is any caller of the caching connector; task "b" is a sector
\* fetch of the same ETF by another /analyze request in flight
Callable(t) == IF t = "a" THEN Requests ELSE {SectorRequest}

VARIABLES
    now,        \* the wall clock, in hours
    cache,      \* the files under CACHE_DIR, by path
    pc,         \* where each fetch_stock_price_data call stands
    chain,      \* which connector module the call runs in
    req,        \* the call's (ticker, period, full_ohlc)
    frame,      \* the normalised frame a caching call is about to write
    attempt,    \* get_yfinance_df's loop counter
    outcome,    \* what the call returned or raised
    log,        \* the provider and cache operations of the current call
    answer      \* the columns of the primary's last live answer in this call

chainVars == <<now, cache, pc, chain, req, frame, attempt, outcome, log, answer>>

ChainInit ==
    /\ now = 0
    /\ cache = [p \in Paths |-> NoFile]
    /\ pc = [t \in Tasks |-> "idle"]
    /\ chain = [t \in Tasks |-> "tiingo"]
    /\ req = [t \in Tasks |-> DefaultRequest]
    /\ frame = [t \in Tasks |-> NoFrame]
    /\ attempt = [t \in Tasks |-> 0]
    /\ outcome = [t \in Tasks |-> NoOutcome]
    /\ log = [t \in Tasks |-> <<>>]
    /\ answer = [t \in Tasks |-> <<>>]

PathOf(t, source) == get_cache_path(req[t].ticker, req[t].period, req[t].full_ohlc, source)

\* is_cache_fresh(path)
is_cache_fresh(path) ==
    /\ cache[path].exists
    /\ (now - cache[path].mtime) < MAX_CACHE_AGE_HOURS

Has(s, e) == e \in Range(s)

Count(s, e) == Cardinality({i \in DOMAIN s : s[i] = e})

Goto(t, label) == pc' = [pc EXCEPT ![t] = label]

Logged(t, events) == log' = [log EXCEPT ![t] = log[t] \o events]

Finish(t, o) == /\ Goto(t, "done")
                /\ outcome' = [outcome EXCEPT ![t] = o]

\* the clock
Tick ==
    /\ now + TickHours <= MaxNow
    /\ now' = now + TickHours
    /\ UNCHANGED <<cache, pc, chain, req, frame, attempt, outcome, log, answer>>

\* fetch_stock_price_data(ticker, period, full_ohlc) is called
Call(t, c, r) ==
    /\ pc[t] = "idle"
    /\ chain' = [chain EXCEPT ![t] = c]
    /\ req' = [req EXCEPT ![t] = r]
    /\ Goto(t, IF c = "tiingo" THEN "tg_stat" ELSE "yf_download")
    /\ UNCHANGED <<now, cache, frame, attempt, outcome, log, answer>>

\* the caller takes the outcome; the call's locals are gone
Return(t) ==
    /\ pc[t] = "done"
    /\ Goto(t, "idle")
    /\ chain' = [chain EXCEPT ![t] = "tiingo"]
    /\ req' = [req EXCEPT ![t] = DefaultRequest]
    /\ frame' = [frame EXCEPT ![t] = NoFrame]
    /\ attempt' = [attempt EXCEPT ![t] = 0]
    /\ outcome' = [outcome EXCEPT ![t] = NoOutcome]
    /\ log' = [log EXCEPT ![t] = <<>>]
    /\ answer' = [answer EXCEPT ![t] = <<>>]
    /\ UNCHANGED <<now, cache>>


(***************************************************************************)
(* The caching chain: fetch_from_tiingo runs in a worker thread            *)
(* (asyncio.to_thread), so each of its file operations is a step of its    *)
(* own; fetch_from_polygon runs on the event loop and suspends only at     *)
(* the HTTP request.                                                       *)
(***************************************************************************)
\* the except branch of fetch_stock_price_data: Tiingo raised, Polygon is next
TiingoFailed(t, events) ==
    /\ Goto(t, "pg_stat")
    /\ Logged(t, events \o <<"tiingo.failed">>)

\* lines 68-78: the freshness test, then (on a miss) the period
TgStat(t) ==
    /\ pc[t] = "tg_stat"
    /\ IF is_cache_fresh(PathOf(t, "tiingo"))
       THEN /\ Goto(t, "tg_read")
            /\ Logged(t, <<"tiingo.fresh">>)
       ELSE IF ParsePeriod(req[t].period).ok
       THEN /\ Goto(t, "tg_live")
            /\ Logged(t, <<"tiingo.miss">>)
       ELSE TiingoFailed(t, <<"tiingo.miss", "ValueError">>)
    /\ UNCHANGED <<now, cache, chain, req, frame, attempt, outcome, answer>>

\* TgRead, were a read to renew the file's modification time
TgReadTouches(t) ==
    /\ pc[t] = "tg_read"
    /\ IF cache[PathOf(t, "tiingo")].state = "complete"
       THEN /\ Finish(t, Success(cache[PathOf(t, "tiingo")].df, "tiingo.cache"))
            /\ Logged(t, <<"tiingo.cache_read", "tiingo.returned">>)
            /\ cache' = [cache EXCEPT ![PathOf(t, "tiingo")].mtime = now]
       ELSE /\ TiingoFailed(t, <<"tiingo.torn_read">>)
            /\ UNCHANGED <<outcome, cache>>
    /\ UNCHANGED <<now, chain, req, frame, attempt, answer>>

\* line 71: pd.read_parquet of a file the test found fresh; a file that is
\* being written, or that two overlapping writers left behind, does not parse
TgRead(t) ==
    /\ pc[t] = "tg_read"
    /\ IF cache[PathOf(t, "tiingo")].state = "complete"
       THEN /\ Finish(t, Success(cache[PathOf(t, "tiingo")].df, "tiingo.cache"))
            /\ Logged(t, <<"tiingo.cache_read", "tiingo.returned">>)
       ELSE /\ TiingoFailed(t, <<"tiingo.torn_read">>)
            /\ UNCHANGED outcome
    /\ UNCHANGED <<now, cache, chain, req, frame, attempt, answer>>

\* TgLive, were a failed live call tried again instead of raised
TgLiveRetrying(t) ==
    /\ pc[t] = "tg_live"
    /\ \E resp \in TiingoResponses :
         LET n == TiingoNormalize(resp.df, req[t].full_ohlc)
         IN IF ~resp.raises /\ n.ok
            THEN /\ Goto(t, "tg_write")
                 /\ Logged(t, <<"tiingo.live">>)
                 /\ frame' = [frame EXCEPT ![t] = n.df]
                 /\ answer' = [answer EXCEPT ![t] = resp.df.cols]
            ELSE /\ Count(log[t], "tiingo.live") < YF_ATTEMPTS
                 /\ Goto(t, "tg_live")
                 /\ Logged(t, <<"tiingo.live", IF resp.raises THEN "NetworkError" ELSE n.err>>)
                 /\ answer' = [answer EXCEPT ![t] = IF resp.raises THEN <<>> ELSE resp.df.cols]
                 /\ UNCHANGED frame
    /\ UNCHANGED <<now, cache, chain, req, attempt, outcome>>

\* lines 83-103: the live call and the normalisation
TgLive(t) ==
    /\ pc[t] = "tg_live"
    /\ \E resp \in TiingoResponses :
         LET n == TiingoNormalize(resp.df, req[t].full_ohlc)
         IN IF ~resp.raises /\ n.ok
            THEN /\ Goto(t, "tg_write")
                 /\ Logged(t, <<"tiingo.live">>)
                 /\ frame' = [frame EXCEPT ![t] = n.df]
                 /\ answer' = [answer EXCEPT ![t] = resp.df.cols]
            ELSE /\ TiingoFailed(t, <<"tiingo.live", IF resp.raises THEN "NetworkError" ELSE n.err>>)
                 /\ answer' = [answer EXCEPT ![t] = IF resp.raises THEN <<>> ELSE resp.df.cols]
                 /\ UNCHANGED frame
    /\ UNCHANGED <<now, cache, chain, req, attempt, outcome>>

\* TgWrite, were a failure to open the cache file logged and passed over
TgWriteErrorIgnored(t) ==
    /\ pc[t] = "tg_write"
    /\ \/ /\ LET path == PathOf(t, "tiingo")
             IN cache' = [cache EXCEPT ![path] =
                            [exists |-> TRUE, state |-> "partial", df |-> NoFrame, mtime |-> now,
                             writers |-> cache[path].writers \cup {t},
                             overlap |-> cache[path].writers # {}]]
          /\ Goto(t, "tg_close")
          /\ Logged(t, <<"tiingo.cache_write">>)
          /\ UNCHANGED outcome
       \/ /\ Finish(t, Success(frame[t], "tiingo.live"))
          /\ Logged(t, <<"tiingo.write_error", "tiingo.returned">>)
          /\ UNCHANGED cache
    /\ UNCHANGED <<now, chain, req, frame, attempt, answer>>

\* line 104, first half: to_parquet opens the cache file itself and truncates
\* it, or the open raises (OSError) and fetch_from_tiingo raises with it
TgWrite(t) ==
    /\ pc[t] = "tg_write"
    /\ \/ /\ LET path == PathOf(t, "tiingo")
             IN cache' = [cache EXCEPT ![path] =
                            [exists |-> TRUE, state |-> "partial", df |-> NoFrame, mtime |-> now,
                             writers |-> cache[path].writers \cup {t},
                             overlap |-> cache[path].writers # {}]]
          /\ Goto(t, "tg_close")
          /\ Logged(t, <<"tiingo.cache_write">>)
       \/ /\ TiingoFailed(t, <<"tiingo.write_error">>)
          /\ UNCHANGED cache
    /\ UNCHANGED <<now, chain, req, frame, attempt, outcome, answer>>

\* what the file holds when writer t closes it: its frame when it wrote alone;
\* after two writers overlapped, either writer's frame or, when the two frames
\* differ, bytes of both (the same frame is the same bytes at the same offsets)
ClosedFiles(t, file) ==
    IF file.writers # {t}
    THEN {[file EXCEPT !.df = frame[t], !.mtime = now, !.writers = file.writers \ {t},
                       !.overlap = TRUE]}
    ELSE IF ~file.overlap
    THEN {WholeFile(frame[t], now)}
    ELSE {WholeFile(frame[t], now), WholeFile(file.df, now)} \cup
         (IF file.df = frame[t] THEN {}
          ELSE {[WholeFile(NoFrame, now) EXCEPT !.state = "corrupt"]})

\* TgClose, were the Polygon fallback entered after a Tiingo success too
TgCloseFallsThrough(t) ==
    /\ pc[t] = "tg_close"
    /\ \E f \in ClosedFiles(t, cache[PathOf(t, "tiingo")]) :
         cache' = [cache EXCEPT ![PathOf(t, "tiingo")] = f]
    /\ Goto(t, "pg_stat")
    /\ Logged(t, <<"tiingo.returned">>)
    /\ UNCHANGED <<now, chain, req, frame, attempt, answer, outcome>>

\* lines 104-106, second half: the file is complete and the call returns
TgClose(t) ==
    /\ pc[t] = "tg_close"
    /\ \E f \in ClosedFiles(t, cache[PathOf(t, "tiingo")]) :
         cache' = [cache EXCEPT ![PathOf(t, "tiingo")] = f]
    /\ Finish(t, Success(frame[t], "tiingo.live"))
    /\ Logged(t, <<"tiingo.returned">>)
    /\ UNCHANGED <<now, chain, req, frame, attempt, answer>>

\* PgStat, were the Polygon request made without a test of the period
PgStatUnvalidated(t) ==
    /\ pc[t] = "pg_stat"
    /\ IF is_cache_fresh(PathOf(t, "polygon"))
       THEN /\ Finish(t, Success(cache[PathOf(t, "polygon")].df, "polygon.cache"))
            /\ Logged(t, <<"polygon.fresh", "polygon.cache_read">>)
       ELSE /\ Goto(t, "pg_live")
            /\ Logged(t, <<"polygon.miss">>)
            /\ UNCHANGED outcome
    /\ UNCHANGED <<now, cache, chain, req, frame, attempt, answer>>

\* lines 110-124: the freshness test and the read, or the period
PgStat(t) ==
    /\ pc[t] = "pg_stat"
    /\ IF is_cache_fresh(PathOf(t, "polygon"))
       THEN /\ Finish(t, Success(cache[PathOf(t, "polygon")].df, "polygon.cache"))
            /\ Logged(t, <<"polygon.fresh", "polygon.cache_read">>)
       ELSE IF PolygonLookback(req[t].period).ok
       THEN /\ Goto(t, "pg_live")
            /\ Logged(t, <<"polygon.miss">>)
            /\ UNCHANGED outcome
       ELSE /\ Finish(t, Failure("ValueError"))
            /\ Logged(t, <<"polygon.miss", "ValueError", "polygon.failed">>)
    /\ UNCHANGED <<now, cache, chain, req, frame, attempt, answer>>

\* PgLive, were the Polygon frame stored under the primary's key as well
PgLiveWritesBothKeys(t) ==
    /\ pc[t] = "pg_live"
    /\ \E resp \in PolygonResponses :
         LET n == PolygonNormalize(resp.results, req[t].full_ohlc)
         IN IF PolygonGotData(resp) /\ n.ok
            THEN /\ cache' = [cache EXCEPT ![PathOf(t, "polygon")] = WholeFile(n.df, now),
                                           ![PathOf(t, "tiingo")] = WholeFile(n.df, now)]
                 /\ Finish(t, Success(n.df, "polygon.live"))
                 /\ Logged(t, <<"polygon.live", "polygon.cache_write">>)
            ELSE /\ Finish(t, Failure(IF PolygonGotData(resp) THEN n.err ELSE "FetchError"))
                 /\ Logged(t, <<"polygon.live", IF PolygonGotData(resp) THEN n.err ELSE "FetchError",
                              "polygon.failed">>)
                 /\ UNCHANGED cache
    /\ UNCHANGED <<now, chain, req, frame, attempt, answer>>

\* lines 134-157: the request, the normalisation and the cache write
PgLive(t) ==
    /\ pc[t] = "pg_live"
    /\ \E resp \in PolygonResponses :
         LET n == PolygonNormalize(resp.results, req[t].full_ohlc)
         IN IF PolygonGotData(resp) /\ n.ok
            THEN /\ cache' = [cache EXCEPT ![PathOf(t, "polygon")] = WholeFile(n.df, now)]
                 /\ Finish(t, Success(n.df, "polygon.live"))
                 /\ Logged(t, <<"polygon.live", "polygon.cache_write">>)
            ELSE /\ Finish(t, Failure(IF PolygonGotData(resp) THEN n.err ELSE "FetchError"))
                 /\ Logged(t, <<"polygon.live", IF PolygonGotData(resp) THEN n.err ELSE "FetchError",
                              "polygon.failed">>)
                 /\ UNCHANGED cache
    /\ UNCHANGED <<now, chain, req, frame, attempt, answer>>

(***************************************************************************)
(* The chain without a cache: get_yfinance_df (in a worker thread), then   *)
(* stockprice_client.fetch_from_polygon.                                   *)
(***************************************************************************)
\* YfinanceFailed, were the failure of yfinance the failure of the call
YfinanceEndsCall(t, events) ==
    /\ Finish(t, Failure("RuntimeError"))
    /\ Logged(t, events \o <<"yfinance.failed">>)

\* the except branch of fetch_stock_price_data: yfinance raised; Polygon parses
\* the period before it suspends at its request (lines 84-92)
YfinanceFailed(t, events) ==
    IF ParsePeriod(req[t].period).ok
    THEN /\ Goto(t, "pg2_live")
         /\ Logged(t, events \o <<"yfinance.failed">>)
         /\ UNCHANGED outcome
    ELSE /\ Finish(t, Failure("ValueError"))
         /\ Logged(t, events \o <<"yfinance.failed", "ValueError", "polygon.failed">>)

\* lines 44-79: one yf.download; a frame ends the loop and is normalised
YfDownload(t) ==
    /\ pc[t] = "yf_download"
    /\ \E resp \in YfResponses :
         LET n == YfNormalize(resp.df, req[t].ticker, req[t].full_ohlc)
         IN /\ IF resp.raises
               THEN /\ Goto(t, "yf_sleep")
                    /\ Logged(t, <<"yfinance.live", "NetworkError">>)
                    /\ UNCHANGED outcome
               ELSE IF n.ok
               THEN /\ Finish(t, Success(n.df, "yfinance.live"))
                    /\ Logged(t, <<"yfinance.live", "yfinance.returned">>)
               ELSE YfinanceFailed(t, <<"yfinance.live", n.err>>)
            /\ answer' = [answer EXCEPT ![t] = IF resp.raises THEN <<>> ELSE resp.df.cols]
    /\ UNCHANGED <<now, cache, chain, req, frame, attempt>>

\* YfSleep, were the loop bound off by one
YfSleepOffByOne(t) ==
    /\ pc[t] = "yf_sleep"
    /\ attempt' = [attempt EXCEPT ![t] = attempt[t] + 1]
    /\ IF attempt[t] + 1 <= YF_ATTEMPTS
       THEN /\ Goto(t, "yf_download")
            /\ Logged(t, <<"sleep">>)
            /\ UNCHANGED outcome
       ELSE YfinanceFailed(t, <<"sleep", "RuntimeError">>)
    /\ UNCHANGED <<now, cache, chain, req, frame, answer>>

\* YfSleep, were the third sleep never to end
YfSleepNeverWakes(t) ==
    /\ pc[t] = "yf_sleep"
    /\ attempt' = [attempt EXCEPT ![t] = attempt[t] + 1]
    /\ IF attempt[t] + 1 < YF_ATTEMPTS
       THEN /\ Goto(t, "yf_download")
            /\ Logged(t, <<"sleep">>)
       ELSE /\ Goto(t, "asleep")
            /\ Logged(t, <<"sleep">>)
    /\ UNCHANGED <<now, cache, chain, req, frame, answer, outcome>>

\* lines 49-53: time.sleep(1), then the next attempt or the loop's else
YfSleep(t) ==
    /\ pc[t] = "yf_sleep"
    /\ attempt' = [attempt EXCEPT ![t] = attempt[t] + 1]
    /\ IF attempt[t] + 1 < YF_ATTEMPTS
       THEN /\ Goto(t, "yf_download")
            /\ Logged(t, <<"sleep">>)
            /\ UNCHANGED outcome
       ELSE YfinanceFailed(t, <<"sleep", "RuntimeError">>)
    /\ UNCHANGED <<now, cache, chain, req, frame, answer>>

\* stockprice_client lines 102-128: the request and the normalisation
Pg2Live(t) ==
    /\ pc[t] = "pg2_live"
    /\ \E resp \in PolygonResponses :
         LET n == PolygonNormalize(resp.results, req[t].full_ohlc)
         IN IF PolygonGotData(resp) /\ n.ok
            THEN /\ Finish(t, Success(n.df, "polygon.live"))
                 /\ Logged(t, <<"polygon.live">>)
            ELSE /\ Finish(t, Failure(IF PolygonGotData(resp) THEN n.err ELSE "FetchError"))
                 /\ Logged(t, <<"polygon.live", IF PolygonGotData(resp) THEN n.err ELSE "FetchError",
                              "polygon.failed">>)
    /\ UNCHANGED <<now, cache, chain, req, frame, attempt, answer>>

(***************************************************************************)
(* /analyze (main.py): the intent, the fan-out of the chart tasks over     *)
(* asyncio.gather, the rendering of the gathered outcomes and the summary. *)
(* The ticker task is the chain without a cache, run as call "a".  The     *)
(* sector task is get_sector_typical_prices: its fetch of the Technology   *)
(* ETF is the caching chain, run as call "b"; the fetches of the other     *)
(* nine ETFs are summarised by which of them succeed.                      *)
(***************************************************************************)
\* what get_subject_and_focus_from_agent answers: "" is a missing field
Intents ==
    [type : {"analysis", "direct_answer"}, sector : {"", "Technology"},
     ticker : {"", "XLK"}, subject : {"", "nvidia"}]

NoIntent == [type |-> "", sector |-> "", ticker |-> "", subject |-> ""]

\* sector_etfs, in the order of the dict
sector_etfs ==
    << <<"Technology", "XLK">>, <<"Financials", "XLF">>, <<"Energy", "XLE">>,
       <<"Healthcare", "XLV">>, <<"Consumer Discretionary", "XLY">>,
       <<"Industrials", "XLI">>, <<"Utilities", "XLU">>, <<"Materials", "XLB">>,
       <<"Real Estate", "XLRE">>, <<"Communication Services", "XLC">> >>

Sectors == {sector_etfs[k][1] : k \in DOMAIN sector_etfs}

\* the other nine sectors: which of their fetch chains succeed
OtherSectorCases ==
    {Sectors \ {"Technology"}, Sectors \ {"Technology", "Energy"}, {}}

\* fetch_google_trend_data: a frame [date, term], or what fetch_sync raises
trendsA ==
    [cols |-> <<"date", "nvidia">>,
     rows |-> << Row(<<"date", "nvidia">>, <<Val(1), Val(80)>>) >>]

TrendsOutcomes ==
    {Success(trendsA, "trends"), Failure("ValueError"), Failure("NetworkError")}

\* fetch_news_sentiment_data returns a frame whatever its day fetches do
newsA ==
    [cols |-> <<"date", "positive", "neutral", "negative">>,
     rows |-> << Row(<<"date", "positive", "neutral", "negative">>,
                     <<Val(1), Val(0), Val(0), Val(0)>>) >>]

\* how the tasks that are not modelled step by step will end
NoFate == [others |-> {}, trends |-> NoOutcome]

Fates(i) ==
    IF i.type = "direct_answer" THEN {NoFate}
    ELSE [others : IF i.sector # "" THEN OtherSectorCases ELSE {{}},
          trends : IF i.subject # "" THEN TrendsOutcomes ELSE {NoOutcome}]

\* lines 70-85: the coroutines, in the order they are appended
BuildTasks(i) ==
    (IF i.sector # "" THEN <<"sector">> ELSE <<>>)
    \o (IF i.ticker # "" THEN <<"ticker">> ELSE <<>>)
    \o (IF i.subject # "" THEN <<"trends", "news">> ELSE <<>>)

\* asyncio.gather, were its results listed as the tasks complete
gather_by_completion(outs, done) == [k \in DOMAIN done |-> outs[done[k]]]

\* asyncio.gather without return_exceptions: the first exception is raised
\* into analyze, whose except branch (line 91) leaves chart_results empty
gather_raising(outs, done) ==
    IF \E k \in DOMAIN outs : outs[k].status = "error" THEN <<>> ELSE outs

\* asyncio.gather(*chart_tasks, return_exceptions=True): once every task is
\* done, the list of their results or exceptions in the order of the arguments,
\* whatever the order "done" in which they completed
gather(outs, done) == [k \in DOMAIN outs |-> outs[k]]

\* get_typical_price, lines 34-40: the typical price series of a sector, or
\* None when the fetch raised or the frame lacks a column
get_typical_price(o) ==
    o.status = "ok" /\ HasCols(o.df, <<"Date", "High", "Low", "Close">>)

RECURSIVE SectorCols(_, _)
SectorCols(pairs, ok) ==
    IF pairs = <<>> THEN <<>>
    ELSE (IF Head(pairs)[1] \in ok THEN <<Head(pairs)[1]>> ELSE <<>>)
         \o SectorCols(Tail(pairs), ok)

\* lines 48-55: one column per valid series, in the order of sector_etfs, or
\* pd.DataFrame() when there is none (the rows are left out)
SectorFrame(ok) == [cols |-> SectorCols(sector_etfs, ok), rows |-> <<>>]

\* the index of a typical price series (line 35) holds a date twice
RepeatsADate(df) ==
    \E j, k \in DOMAIN df.rows : j # k /\ df.rows[j]["Date"] = df.rows[k]["Date"]

\* pd.concat(valid_series, axis=1), line 55, were it to lay the series side
\* by side without aligning them on their dates
concat_unaligned(o, others) ==
    Success(SectorFrame(others \cup (IF get_typical_price(o) THEN {"Technology"} ELSE {})),
            "sector")

\* lines 48-60 for the series of XLK (from the outcome o of its chain) and
\* those of the sectors in "others", which hold each date once: pd.concat
\* aligns the series on their dates, and raises when a series that repeats a
\* date has to be reindexed to the union of the indexes
concat(o, others) ==
    IF get_typical_price(o) /\ RepeatsADate(o.df) /\ others # {}
    THEN Failure("InvalidIndexError")
    ELSE Success(SectorFrame(others \cup (IF get_typical_price(o) THEN {"Technology"} ELSE {})),
                 "sector")

\* safe_append_chart, were an outcome that is no DataFrame to empty the list
append_or_clear(charts, df, chart_type, title, highlight, raises) ==
    IF df.status = "ok"
    THEN IF raises THEN charts
         ELSE Append(charts, [type |-> chart_type, title |-> title, data |-> df.df,
                              legend |-> df.df.cols, highlight |-> highlight])
    ELSE <<>>

\* safe_append_chart, lines 95-108: only a DataFrame becomes a chart block,
\* and when format_chart_block raises the except branch appends nothing
safe_append_chart(charts, df, chart_type, title, highlight, raises) ==
    IF df.status = "ok" /\ ~raises
    THEN Append(charts, [type |-> chart_type, title |-> title, data |-> df.df,
                         legend |-> df.df.cols, highlight |-> highlight])
    ELSE charts

\* RenderCharts, were result_idx not advanced after the ticker's outcome
RenderChartsStuckIndex(i, results, bad) ==
    LET s0 == [ok |-> TRUE, idx |-> 1, charts |-> <<>>]
        s1 == IF i.sector = "" THEN s0
              ELSE IF s0.idx > Len(results) THEN [s0 EXCEPT !.ok = FALSE]
              ELSE [ok |-> TRUE, idx |-> s0.idx + 1,
                    charts |-> safe_append_chart(s0.charts, results[s0.idx], "line",
                                   <<"Sector Growth (Typical Price)">>, i.sector,
                                   "sector" \in bad)]
        s2 == IF i.ticker = "" \/ ~s1.ok THEN s1
              ELSE IF s1.idx > Len(results) THEN [s1 EXCEPT !.ok = FALSE]
              ELSE [ok |-> TRUE, idx |-> s1.idx,
                    charts |-> safe_append_chart(s1.charts, results[s1.idx], "line",
                                   <<i.ticker, "Stock Price">>, "", "ticker" \in bad)]
        s3 == IF i.subject = "" \/ ~s2.ok THEN s2
              ELSE IF s2.idx + 1 > Len(results) THEN [s2 EXCEPT !.ok = FALSE]
              ELSE [ok |-> TRUE, idx |-> s2.idx + 2,
                    charts |-> safe_append_chart(
                                   safe_append_chart(s2.charts, results[s2.idx], "line",
                                       <<i.subject, "Search Trends">>, "", "trends" \in bad),
                                   results[s2.idx + 1], "bar",
                                   <<i.subject, "News Sentiment">>, "", "news" \in bad)]
    IN s3.charts

\* lines 93, 110-123: result_idx walks chart_results; an index past its end
\* raises into the except branch, which keeps the charts appended so far;
\* bad holds the kinds of chart on which format_chart_block raises
RenderCharts(i, results, bad) ==
    LET s0 == [ok |-> TRUE, idx |-> 1, charts |-> <<>>]
        s1 == IF i.sector = "" THEN s0
              ELSE IF s0.idx > Len(results) THEN [s0 EXCEPT !.ok = FALSE]
              ELSE [ok |-> TRUE, idx |-> s0.idx + 1,
                    charts |-> safe_append_chart(s0.charts, results[s0.idx], "line",
                                   <<"Sector Growth (Typical Price)">>, i.sector,
                                   "sector" \in bad)]
        s2 == IF i.ticker = "" \/ ~s1.ok THEN s1
              ELSE IF s1.idx > Len(results) THEN [s1 EXCEPT !.ok = FALSE]
              ELSE [ok |-> TRUE, idx |-> s1.idx + 1,
                    charts |-> safe_append_chart(s1.charts, results[s1.idx], "line",
                                   <<i.ticker, "Stock Price">>, "", "ticker" \in bad)]
        s3 == IF i.subject = "" \/ ~s2.ok THEN s2
              ELSE IF s2.idx + 1 > Len(results) THEN [s2 EXCEPT !.ok = FALSE]
              ELSE [ok |-> TRUE, idx |-> s2.idx + 2,
                    charts |-> safe_append_chart(
                                   safe_append_chart(s2.charts, results[s2.idx], "line",
                                       <<i.subject, "Search Trends">>, "", "trends" \in bad),
                                   results[s2.idx + 1], "bar",
                                   <<i.subject, "News Sentiment">>, "", "news" \in bad)]
    IN s3.charts

NoOutput == [summary |-> "", charts |-> <<>>]

\* the sets of chart kinds on which format_chart_block may raise in a request
FormatFailures == SUBSET {"sector", "ticker", "trends", "news"}

VARIABLES
    a_pc,           \* where the /analyze handler stands
    intent,         \* the intent of the request
    fate,           \* how the tasks not modelled step by step will end
    chart_tasks,    \* the submitted tasks, by kind, in submission order
    settled,        \* what each task returned or raised, by its position
    completed,      \* the positions of the tasks in the order they completed
    chart_results,  \* what gather returned
    format_errors,  \* the kinds of chart on which format_chart_block raised
    output          \* the response

analyzeVars ==
    <<a_pc, intent, fate, chart_tasks, settled, completed, chart_results, format_errors,
      output>>

AnalyzeInit ==
    /\ a_pc = "idle"
    /\ intent = NoIntent
    /\ fate = NoFate
    /\ chart_tasks = <<>>
    /\ settled = <<>>
    /\ completed = <<>>
    /\ chart_results = <<>>
    /\ format_errors = {}
    /\ output = NoOutput

PositionOf(kind) == CHOOSE k \in DOMAIN chart_tasks : chart_tasks[k] = kind

Pending(kind) ==
    /\ a_pc = "gather"
    /\ kind \in Range(chart_tasks)
    /\ settled[PositionOf(kind)] = NoOutcome

Settle(kind, o) ==
    /\ settled' = [settled EXCEPT ![PositionOf(kind)] = o]
    /\ completed' = Append(completed, PositionOf(kind))
    /\ UNCHANGED <<a_pc, intent, fate, chart_tasks, chart_results, format_errors, output>>

\* lines 45-87: the intent, the direct answer, or the tasks handed to gather,
\* which starts them
A_Start(i, f) ==
    /\ a_pc = "idle"
    /\ intent' = i
    /\ fate' = f
    /\ IF i.type = "direct_answer"
       THEN /\ a_pc' = "returned"
            /\ output' = [summary |-> "answer", charts |-> <<>>]
            /\ UNCHANGED <<chart_tasks, settled, pc, chain, req>>
       ELSE /\ a_pc' = "gather"
            /\ chart_tasks' = BuildTasks(i)
            /\ settled' = [k \in DOMAIN BuildTasks(i) |-> NoOutcome]
            /\ output' = NoOutput
            /\ pc' = [t \in Tasks |->
                        IF t = "a" /\ i.ticker # "" THEN "yf_download"
                        ELSE IF t = "b" /\ i.sector # "" THEN "tg_stat"
                        ELSE pc[t]]
            /\ chain' = [t \in Tasks |->
                           IF t = "a" /\ i.ticker # "" THEN "yfinance" ELSE chain[t]]
            /\ req' = [t \in Tasks |->
                         IF t = "a" /\ i.ticker # ""
                         THEN [ticker |-> i.ticker, period |-> <<"6", "m", "o">>,
                               full_ohlc |-> TRUE]
                         ELSE IF t = "b" /\ i.sector # "" THEN SectorRequest
                         ELSE req[t]]
    /\ UNCHANGED <<completed, chart_results, format_errors>>
    /\ UNCHANGED <<now, cache, frame, attempt, outcome, log, answer>>

\* lines 50-55: get_subject_and_focus_from_agent raises; the except branch
\* returns the output as it was built on line 47
A_IntentRaises ==
    /\ a_pc = "idle"
    /\ a_pc' = "returned"
    /\ output' = NoOutput
    /\ UNCHANGED <<intent, fate, chart_tasks, settled, completed, chart_results,
                   format_errors>>
    /\ UNCHANGED chainVars

\* the ticker task is done: its chain returned or raised
A_TickerSettles ==
    /\ Pending("ticker")
    /\ pc["a"] = "done"
    /\ Settle("ticker", outcome["a"])
    /\ Return("a")

\* the sector task is done: every get_typical_price has returned, and the
\* frame is built from the series that are not None, or pd.concat raises
A_SectorSettles ==
    /\ Pending("sector")
    /\ pc["b"] = "done"
    /\ Settle("sector", concat(outcome["b"], fate.others))
    /\ Return("b")

A_TrendsSettles ==
    /\ Pending("trends")
    /\ Settle("trends", fate.trends)
    /\ UNCHANGED chainVars

A_NewsSettles ==
    /\ Pending("news")
    /\ Settle("news", Success(newsA, "news"))
    /\ UNCHANGED chainVars

\* lines 87-123: every task is done, gather returns and the charts are built
A_Gathered ==
    /\ a_pc = "gather"
    /\ \A k \in DOMAIN settled : settled[k] # NoOutcome
    /\ chart_results' = gather(settled, completed)
    /\ \E bad \in FormatFailures :
         /\ format_errors' = bad
         /\ output' = [output EXCEPT
                         !.charts = RenderCharts(intent, gather(settled, completed), bad)]
    /\ a_pc' = "summary"
    /\ UNCHANGED <<intent, fate, chart_tasks, settled, completed>>
    /\ UNCHANGED chainVars

\* A_Summary, were an exception of the summary step to leave the handler:
\* the framework answers with its error body
A_SummaryUncaught ==
    /\ a_pc = "summary"
    /\ \/ output' = [output EXCEPT !.summary = "structured"]
       \/ output' = [detail |-> "Internal Server Error"]
    /\ a_pc' = "returned"
    /\ UNCHANGED <<intent, fate, chart_tasks, settled, completed, chart_results,
                   format_errors>>
    /\ UNCHANGED chainVars

\* lines 125-134: the summary; when a step of it raises, the except branch
\* leaves output["summary"] as it was
A_Summary ==
    /\ a_pc = "summary"
    /\ \/ output' = [output EXCEPT !.summary = "structured"]
       \/ output' = output
    /\ a_pc' = "returned"
    /\ UNCHANGED <<intent, fate, chart_tasks, settled, completed, chart_results,
                   format_errors>>
    /\ UNCHANGED chainVars

\* the response is sent; the handler's locals are gone, the cache stays
A_Return ==
    /\ a_pc = "returned"
    /\ a_pc' = "idle"
    /\ intent' = NoIntent
    /\ fate' = NoFate
    /\ chart_tasks' = <<>>
    /\ settled' = <<>>
    /\ completed' = <<>>
    /\ chart_results' = <<>>
    /\ format_errors' = {}
    /\ output' = NoOutput
    /\ UNCHANGED chainVars

(***************************************************************************)
(* fetch_news_sentiment_data (newsapi_client.py): five per-day headline    *)
(* fetches over one gather, then the classification and the counts.        *)
(* Days are whole numbers; a compound score is in hundredths.              *)
(***************************************************************************)
\* strftime("%Y-%m-%d") over the turn of a year: day 0 is 2023-12-25.  The
\* fields are zero padded, so strings compare as these triples do.
Strftime(d) == IF d <= 6 THEN <<2023, 12, 25 + d>> ELSE <<2024, 1, d - 6>>

DateLess(x, y) ==
    \/ x[1] < y[1]
    \/ x[1] = y[1] /\ x[2] < y[2]
    \/ x[1] = y[1] /\ x[2] = y[2] /\ x[3] < y[3]

Todays == {6, 7, 10}

\* lines 71-77: (start, end) for i in reversed(range(5))
date_ranges(day) ==
    [k \in 1..5 |-> <<Strftime(day - ((5 - k) + 1)), Strftime(day - (5 - k))>>]

\* an article's description: missing (None), empty, or a text with its
\* VADER compound score
Descriptions ==
    {[text |-> "None", compound |-> 0], [text |-> "", compound |-> 0]}
    \cup {[text |-> "text", compound |-> c] : c \in {-20, 0, 20}}

RECURSIVE ClassifySkippingEmpty(_)
\* classify_headlines_with_vader, were an empty text skipped without a label
ClassifySkippingEmpty(headlines) ==
    IF headlines = <<>> THEN <<>>
    ELSE (IF Head(headlines).text \in {"None", ""} THEN <<>>
          ELSE IF Head(headlines).compound >= 20 THEN <<"positive">>
          ELSE IF Head(headlines).compound <= -20 THEN <<"negative">>
          ELSE <<"neutral">>)
         \o ClassifySkippingEmpty(Tail(headlines))

\* classify_headlines_with_vader, were the positive threshold exclusive
ClassifyStrictlyAbove(headlines) ==
    [k \in DOMAIN headlines |->
        IF headlines[k].text \in {"None", ""} THEN "neutral"
        ELSE IF headlines[k].compound > 20 THEN "positive"
        ELSE IF headlines[k].compound <= -20 THEN "negative"
        ELSE "neutral"]

\* lines 25-38
classify_headlines_with_vader(headlines) ==
    [k \in DOMAIN headlines |->
        IF headlines[k].text \in {"None", ""} THEN "neutral"
        ELSE IF headlines[k].compound >= 20 THEN "positive"
        ELSE IF headlines[k].compound <= -20 THEN "negative"
        ELSE "neutral"]

RECURSIVE SeqsUpTo(_, _)
SeqsUpTo(S, n) ==
    IF n = 0 THEN {<<>>}
    ELSE SeqsUpTo(S, n - 1) \cup {Append(s, x) : s \in SeqsUpTo(S, n - 1), x \in S}

\* fetch_headlines_newsapi, lines 52-61: the request raises, the status is
\* an error, or the body lists n articles
NewsResponses(n) ==
    {[kind |-> "raise", status |-> 0, articles |-> <<>>],
     [kind |-> "http", status |-> 429, articles |-> <<>>]}
    \cup {[kind |-> "http", status |-> 200, articles |-> a] : a \in SeqsUpTo(Descriptions, n)}

\* from_date: the start of the date range the fetch was called with
NoBatch == [state |-> "pending", failed |-> FALSE, headlines |-> <<>>, from_date |-> <<>>]

\* lines 86-88
CountOf(sentiments, s) == Cardinality({k \in DOMAIN sentiments : sentiments[k] = s})

NewsCols == <<"date", "positive", "neutral", "negative">>

\* lines 83-93: one row per date range, zipped with the batches by position
SentimentFrame(ranges, all_article_batches) ==
    [cols |-> NewsCols,
     rows |-> [k \in DOMAIN ranges |->
                 LET sentiments == classify_headlines_with_vader(all_article_batches[k].headlines)
                 IN Row(NewsCols, <<Val(ranges[k][1]),
                                    Val(CountOf(sentiments, "positive")),
                                    Val(CountOf(sentiments, "neutral")),
                                    Val(CountOf(sentiments, "negative"))>>)]]

VARIABLES
    n_pc,       \* where fetch_news_sentiment_data stands
    today,      \* datetime.today(), read once
    batches,    \* what each day's fetch_headlines_newsapi returned, by position
    overtaken,  \* whether a day's fetch completed before that of an earlier day
    news_df     \* the frame returned

newsVars == <<n_pc, today, batches, overtaken, news_df>>

NewsInit ==
    /\ n_pc = "idle"
    /\ today = 6
    /\ batches = [k \in 1..5 |-> NoBatch]
    /\ overtaken = FALSE
    /\ news_df = NoFrame

Retrieved == Len(batches[1].headlines) + Len(batches[2].headlines)
             + Len(batches[3].headlines) + Len(batches[4].headlines)
             + Len(batches[5].headlines)

\* the fetch at position k completes while one before it is still pending
Overtakes(k) == \E j \in 1..(k - 1) : batches[j].state = "pending"

\* lines 69-81: the date ranges are computed and the five fetches start
NewsCall(day) ==
    /\ n_pc = "idle"
    /\ today' = day
    /\ n_pc' = "gather"
    /\ batches' = [k \in 1..5 |-> NoBatch]
    /\ overtaken' = FALSE
    /\ news_df' = NoFrame

\* NewsDayReturns, were a failed day fetch raised into the gather and out of
\* fetch_news_sentiment_data
NewsDayRaises(k, resp) ==
    /\ n_pc = "gather"
    /\ batches[k].state = "pending"
    /\ IF resp.kind = "http" /\ resp.status = 200
       THEN /\ batches' = [batches EXCEPT ![k] =
                            [state |-> "done", failed |-> FALSE, headlines |-> resp.articles,
                             from_date |-> date_ranges(today)[k][1]]]
            /\ UNCHANGED <<n_pc, news_df>>
       ELSE /\ batches' = [batches EXCEPT ![k] =
                            [state |-> "done", failed |-> TRUE, headlines |-> <<>>,
                             from_date |-> date_ranges(today)[k][1]]]
            /\ n_pc' = "returned"
            /\ news_df' = NoFrame
    /\ overtaken' = (overtaken \/ Overtakes(k))
    /\ UNCHANGED today

\* NewsDayReturns, were the gather to list the results in the order in which
\* the fetches completed
NewsDayReturnsByArrival(k, resp) ==
    /\ n_pc = "gather"
    /\ \A j \in 1..5 : batches[j].from_date # date_ranges(today)[k][1]
    /\ batches' = [batches EXCEPT ![1 + Cardinality({j \in 1..5 : batches[j].state = "done"})] =
                     IF resp.kind = "http" /\ resp.status = 200
                     THEN [state |-> "done", failed |-> FALSE, headlines |-> resp.articles,
                           from_date |-> date_ranges(today)[k][1]]
                     ELSE [state |-> "done", failed |-> TRUE, headlines |-> <<>>,
                           from_date |-> date_ranges(today)[k][1]]]
    /\ overtaken' = (overtaken \/ \E j \in 1..(k - 1) :
                        \A i \in 1..5 : batches[i].from_date # date_ranges(today)[j][1])
    /\ UNCHANGED <<n_pc, today, news_df>>

\* one day's fetch returns: its descriptions, or [] after any exception; the
\* gather keeps the result at the position of the fetch among its arguments
NewsDayReturns(k, resp) ==
    /\ n_pc = "gather"
    /\ batches[k].state = "pending"
    /\ batches' = [batches EXCEPT ![k] =
                     IF resp.kind = "http" /\ resp.status = 200
                     THEN [state |-> "done", failed |-> FALSE, headlines |-> resp.articles,
                           from_date |-> date_ranges(today)[k][1]]
                     ELSE [state |-> "done", failed |-> TRUE, headlines |-> <<>>,
                           from_date |-> date_ranges(today)[k][1]]]
    /\ overtaken' = (overtaken \/ Overtakes(k))
    /\ UNCHANGED <<n_pc, today, news_df>>

\* lines 83-96: gather returns and the frame is built
NewsFinish ==
    /\ n_pc = "gather"
    /\ \A k \in 1..5 : batches[k].state = "done"
    /\ news_df' = SentimentFrame(date_ranges(today), batches)
    /\ n_pc' = "returned"
    /\ UNCHANGED <<today, batches, overtaken>>

\* the caller has the frame
NewsReturn ==
    /\ n_pc = "returned"
    /\ n_pc' = "idle"
    /\ batches' = [k \in 1..5 |-> NoBatch]
    /\ overtaken' = FALSE
    /\ news_df' = NoFrame
    /\ UNCHANGED today

(***************************************************************************)
(* classify_headlines_with_vader on its own, over every list of at most    *)
(* MaxHeadlines snippets whose compound scores lie at, next to and far     *)
(* from the two thresholds.                                                *)
(***************************************************************************)
\* compound scores, in hundredths
Scores == {-100, -21, -20, -19, 0, 19, 20, 21, 100}

Snippets ==
    {[text |-> "None", compound |-> 0], [text |-> "", compound |-> 0]}
    \cup {[text |-> "text", compound |-> c] : c \in Scores}

VARIABLES
    cl_pc,          \* where the call of classify_headlines_with_vader stands
    cl_headlines,   \* its argument
    cl_labels       \* what it returned

classifyVars == <<cl_pc, cl_headlines, cl_labels>>

ClassifyInit ==
    /\ cl_pc = "idle"
    /\ cl_headlines = <<>>
    /\ cl_labels = <<>>

ClassifyCall(headlines) ==
    /\ cl_pc = "idle"
    /\ cl_headlines' = headlines
    /\ cl_labels' = <<>>
    /\ cl_pc' = "called"

ClassifyReturn ==
    /\ cl_pc = "called"
    /\ cl_labels' = classify_headlines_with_vader(cl_headlines)
    /\ cl_pc' = "returned"
    /\ UNCHANGED cl_headlines

ClassifyDone ==
    /\ cl_pc = "returned"
    /\ cl_pc' = "idle"
    /\ cl_headlines' = <<>>
    /\ cl_labels' = <<>>

(***************************************************************************)
(* The three normalisations on their own, over the fixtures above and over *)
(* every payload of at most MaxRows rows drawn from RawRows; and the same  *)
(* statements applied once more to the frame they returned.                *)
(***************************************************************************)
\* a payload row: its timestamp (10 and 14 are hours of one day, 34 of the
\* next), its close and its high, each of the two a value or missing
RawRows == [t : {10, 14, 34}, close : {Val(5), NaN}, high : {Val(7), NaN}]

TgRow(r) == Row(TgNames, <<Val(r.t), r.close, r.high, Val(3), Val(100)>>)

PgRow(r) == Row(PgNames, <<Val(r.t), Val(4), r.high, Val(3), r.close, Val(100)>>)

YfRow(r) == Row(YfNames, <<Val(r.t), r.close, r.close, r.high, Val(3)>>)

TiingoPayloads ==
    TiingoFrames \cup
    {[index |-> "date", cols |-> Tail(TgNames), rows |-> [k \in DOMAIN s |-> TgRow(s[k])]] :
        s \in SeqsUpTo(RawRows, MaxRows)}

PolygonPayloads ==
    PolygonFrames \cup
    {[cols |-> PgNames, rows |-> [k \in DOMAIN s |-> PgRow(s[k])]] :
        s \in SeqsUpTo(RawRows, MaxRows)}

YfPayloads ==
    YfFrames \cup
    {[index |-> "Date", level1 |-> {"XLK"}, cols |-> Tail(YfNames),
      rows |-> [k \in DOMAIN s |-> YfRow(s[k])]] : s \in SeqsUpTo(RawRows, MaxRows)}

NormalizeInputs ==
    {[provider |-> "tiingo", raw |-> f, full_ohlc |-> b] : f \in TiingoPayloads, b \in BOOLEAN}
    \cup {[provider |-> "polygon", raw |-> f, full_ohlc |-> b] :
            f \in PolygonPayloads, b \in BOOLEAN}
    \cup {[provider |-> "yfinance", raw |-> f, full_ohlc |-> b] : f \in YfPayloads, b \in BOOLEAN}

\* the statements between a provider's answer and the frame returned
Normalize(provider, raw, full_ohlc) ==
    CASE provider = "tiingo" -> TiingoNormalize(raw, full_ohlc)
      [] provider = "polygon" ->
           IF Len(raw.rows) = 0 THEN Err("ValueError") ELSE PolygonNormalize(raw, full_ohlc)
      [] provider = "yfinance" -> YfNormalize(raw, "XLK", full_ohlc)

\* a returned frame as those statements meet it: under a RangeIndex, which
\* reset_index makes the column "index"; pd.to_datetime of a date is the
\* midnight that starts it
Reread(df, dates) ==
    [index |-> "index", level1 |-> {}, cols |-> df.cols,
     rows |-> [k \in DOMAIN df.rows |->
                 [c \in Range(df.cols) \cup {"index"} |->
                    IF c = "index" THEN Val(k - 1)
                    ELSE IF c = "Date" /\ dates /\ df.rows[k][c] # NaN
                    THEN Val(df.rows[k][c][1] * 24)
                    ELSE df.rows[k][c]]]]

Renormalize(provider, df, full_ohlc) ==
    CASE provider = "tiingo" -> TiingoNormalize(Reread(df, TRUE), full_ohlc)
      [] provider = "polygon" ->
           IF Len(df.rows) = 0 THEN Err("ValueError") ELSE PolygonNormalize(df, full_ohlc)
      [] provider = "yfinance" -> YfNormalize(Reread(df, FALSE), "XLK", full_ohlc)

NoInput == [provider |-> "", raw |-> NoFrame, full_ohlc |-> FALSE]

VARIABLES
    nz_pc,      \* where the normalisation stands
    nz_in,      \* the provider, its payload and the shape asked for
    nz_out,     \* the frame returned, or the exception raised
    nz_again    \* the same for the statements applied to nz_out

normalizeVars == <<nz_pc, nz_in, nz_out, nz_again>>

NormalizeInit ==
    /\ nz_pc = "idle"
    /\ nz_in = NoInput
    /\ nz_out = Err("")
    /\ nz_again = Err("")

NzCall(in) ==
    /\ nz_pc = "idle"
    /\ nz_in' = in
    /\ nz_pc' = "called"
    /\ UNCHANGED <<nz_out, nz_again>>

NzNormalize ==
    /\ nz_pc = "called"
    /\ nz_out' = Normalize(nz_in.provider, nz_in.raw, nz_in.full_ohlc)
    /\ nz_pc' = "normalized"
    /\ UNCHANGED <<nz_in, nz_again>>

NzAgain ==
    /\ nz_pc = "normalized"
    /\ nz_out.ok
    /\ nz_again' = Renormalize(nz_in.provider, nz_out.df, nz_in.full_ohlc)
    /\ nz_pc' = "again"
    /\ UNCHANGED <<nz_in, nz_out>>

NzDone ==
    /\ nz_pc \in {"normalized", "again"}
    /\ nz_pc' = "idle"
    /\ nz_in' = NoInput
    /\ nz_out' = Err("")
    /\ nz_again' = Err("")

vars == <<chainVars, analyzeVars, newsVars, classifyVars, normalizeVars>>

Init == ChainInit /\ AnalyzeInit /\ NewsInit /\ ClassifyInit /\ NormalizeInit

\* Two concurrent callers of the caching chain, sharing the cache directory.
ChainNext ==
    \/ Tick /\ UNCHANGED <<analyzeVars, newsVars, classifyVars, normalizeVars>>
    \/ \E t \in Tasks : \E r \in Callable(t) :
         Call(t, "tiingo", r) /\ UNCHANGED <<analyzeVars, newsVars, classifyVars, normalizeVars>>
    \/ \E t \in Tasks : TgStat(t) /\ UNCHANGED <<analyzeVars, newsVars, classifyVars, normalizeVars>>
    \/ \E t \in Tasks : TgRead(t) /\ UNCHANGED <<analyzeVars, newsVars, classifyVars, normalizeVars>>
    \/ \E t \in Tasks : TgLive(t) /\ UNCHANGED <<analyzeVars, newsVars, classifyVars, normalizeVars>>
    \/ \E t \in Tasks : TgWrite(t) /\ UNCHANGED <<analyzeVars, newsVars, classifyVars, normalizeVars>>
    \/ \E t \in Tasks : TgClose(t) /\ UNCHANGED <<analyzeVars, newsVars, classifyVars, normalizeVars>>
    \/ \E t \in Tasks : PgStat(t) /\ UNCHANGED <<analyzeVars, newsVars, classifyVars, normalizeVars>>
    \/ \E t \in Tasks : PgLive(t) /\ UNCHANGED <<analyzeVars, newsVars, classifyVars, normalizeVars>>
    \/ \E t \in Tasks : Return(t) /\ UNCHANGED <<analyzeVars, newsVars, classifyVars, normalizeVars>>

Spec == Init /\ [][ChainNext]_vars

\* One caller at a time, of either connector module.
OneCallNext ==
    \/ Tick /\ UNCHANGED <<analyzeVars, newsVars, classifyVars, normalizeVars>>
    \/ \E c \in Chains, r \in Requests :
         Call("a", c, r) /\ UNCHANGED <<analyzeVars, newsVars, classifyVars, normalizeVars>>
    \/ TgStat("a") /\ UNCHANGED <<analyzeVars, newsVars, classifyVars, normalizeVars>>
    \/ TgRead("a") /\ UNCHANGED <<analyzeVars, newsVars, classifyVars, normalizeVars>>
    \/ TgLive("a") /\ UNCHANGED <<analyzeVars, newsVars, classifyVars, normalizeVars>>
    \/ TgWrite("a") /\ UNCHANGED <<analyzeVars, newsVars, classifyVars, normalizeVars>>
    \/ TgClose("a") /\ UNCHANGED <<analyzeVars, newsVars, classifyVars, normalizeVars>>
    \/ PgStat("a") /\ UNCHANGED <<analyzeVars, newsVars, classifyVars, normalizeVars>>
    \/ PgLive("a") /\ UNCHANGED <<analyzeVars, newsVars, classifyVars, normalizeVars>>
    \/ YfDownload("a") /\ UNCHANGED <<analyzeVars, newsVars, classifyVars, normalizeVars>>
    \/ YfSleep("a") /\ UNCHANGED <<analyzeVars, newsVars, classifyVars, normalizeVars>>
    \/ Pg2Live("a") /\ UNCHANGED <<analyzeVars, newsVars, classifyVars, normalizeVars>>
    \/ Return("a") /\ UNCHANGED <<analyzeVars, newsVars, classifyVars, normalizeVars>>

SpecCall == Init /\ [][OneCallNext]_vars

\* the steps of one submitted task, by kind
TaskStep(kind) ==
    \/ kind = "ticker" /\ (YfDownload("a") \/ YfSleep("a") \/ Pg2Live("a"))
                       /\ UNCHANGED <<analyzeVars, newsVars, classifyVars, normalizeVars>>
    \/ kind = "ticker" /\ A_TickerSettles /\ UNCHANGED <<newsVars, classifyVars, normalizeVars>>
    \/ kind = "sector" /\ (\/ TgStat("b") \/ TgRead("b") \/ TgLive("b") \/ TgWrite("b")
                           \/ TgClose("b") \/ PgStat("b") \/ PgLive("b"))
                       /\ UNCHANGED <<analyzeVars, newsVars, classifyVars, normalizeVars>>
    \/ kind = "sector" /\ A_SectorSettles /\ UNCHANGED <<newsVars, classifyVars, normalizeVars>>
    \/ kind = "trends" /\ A_TrendsSettles /\ UNCHANGED <<newsVars, classifyVars, normalizeVars>>
    \/ kind = "news" /\ A_NewsSettles /\ UNCHANGED <<newsVars, classifyVars, normalizeVars>>

\* One /analyze request at a time, its chart tasks interleaved.
AnalyzeNext ==
    \/ \E i \in Intents : \E f \in Fates(i) : A_Start(i, f) /\ UNCHANGED <<newsVars, classifyVars, normalizeVars>>
    \/ A_IntentRaises /\ UNCHANGED <<newsVars, classifyVars, normalizeVars>>
    \/ YfDownload("a") /\ UNCHANGED <<analyzeVars, newsVars, classifyVars, normalizeVars>>
    \/ YfSleep("a") /\ UNCHANGED <<analyzeVars, newsVars, classifyVars, normalizeVars>>
    \/ Pg2Live("a") /\ UNCHANGED <<analyzeVars, newsVars, classifyVars, normalizeVars>>
    \/ TgStat("b") /\ UNCHANGED <<analyzeVars, newsVars, classifyVars, normalizeVars>>
    \/ TgRead("b") /\ UNCHANGED <<analyzeVars, newsVars, classifyVars, normalizeVars>>
    \/ TgLive("b") /\ UNCHANGED <<analyzeVars, newsVars, classifyVars, normalizeVars>>
    \/ TgWrite("b") /\ UNCHANGED <<analyzeVars, newsVars, classifyVars, normalizeVars>>
    \/ TgClose("b") /\ UNCHANGED <<analyzeVars, newsVars, classifyVars, normalizeVars>>
    \/ PgStat("b") /\ UNCHANGED <<analyzeVars, newsVars, classifyVars, normalizeVars>>
    \/ PgLive("b") /\ UNCHANGED <<analyzeVars, newsVars, classifyVars, normalizeVars>>
    \/ A_TickerSettles /\ UNCHANGED <<newsVars, classifyVars, normalizeVars>>
    \/ A_SectorSettles /\ UNCHANGED <<newsVars, classifyVars, normalizeVars>>
    \/ A_TrendsSettles /\ UNCHANGED <<newsVars, classifyVars, normalizeVars>>
    \/ A_NewsSettles /\ UNCHANGED <<newsVars, classifyVars, normalizeVars>>
    \/ A_Gathered /\ UNCHANGED <<newsVars, classifyVars, normalizeVars>>
    \/ A_Summary /\ UNCHANGED <<newsVars, classifyVars, normalizeVars>>
    \/ A_Return /\ UNCHANGED <<newsVars, classifyVars, normalizeVars>>

SpecAnalyze == Init /\ [][AnalyzeNext]_vars

\* One /analyze request whose started tasks are all scheduled: the event loop
\* and the thread pool run every task that can take a step, and every
\* outbound call returns or raises.
FairAnalyze == SpecAnalyze /\ WF_vars(a_pc # "idle" /\ AnalyzeNext)

\* One call of fetch_news_sentiment_data at a time.
NewsNext ==
    \/ \E day \in Todays : NewsCall(day) /\ UNCHANGED <<chainVars, analyzeVars, classifyVars, normalizeVars>>
    \/ \E k \in 1..5 : \E resp \in NewsResponses(MaxArticles - Retrieved) :
         NewsDayReturns(k, resp) /\ UNCHANGED <<chainVars, analyzeVars, classifyVars, normalizeVars>>
    \/ NewsFinish /\ UNCHANGED <<chainVars, analyzeVars, classifyVars, normalizeVars>>
    \/ NewsReturn /\ UNCHANGED <<chainVars, analyzeVars, classifyVars, normalizeVars>>

SpecNews == Init /\ [][NewsNext]_vars

\* classify_headlines_with_vader, called on one list at a time.
ClassifyNext ==
    \/ \E headlines \in SeqsUpTo(Snippets, MaxHeadlines) :
         ClassifyCall(headlines) /\ UNCHANGED <<chainVars, analyzeVars, newsVars, normalizeVars>>
    \/ ClassifyReturn /\ UNCHANGED <<chainVars, analyzeVars, newsVars, normalizeVars>>
    \/ ClassifyDone /\ UNCHANGED <<chainVars, analyzeVars, newsVars, normalizeVars>>

SpecClassify == Init /\ [][ClassifyNext]_vars

\* One normalisation at a time.
NormalizeNext ==
    \/ \E in \in NormalizeInputs :
         NzCall(in) /\ UNCHANGED <<chainVars, analyzeVars, newsVars, classifyVars>>
    \/ NzNormalize /\ UNCHANGED <<chainVars, analyzeVars, newsVars, classifyVars>>
    \/ NzAgain /\ UNCHANGED <<chainVars, analyzeVars, newsVars, classifyVars>>
    \/ NzDone /\ UNCHANGED <<chainVars, analyzeVars, newsVars, classifyVars>>

SpecNormalize == Init /\ [][NormalizeNext]_vars


(***************************************************************************)
(* Claims about the price fetch chains.                                    *)
(***************************************************************************)
PolygonEvents ==
    {"polygon.fresh", "polygon.miss", "polygon.cache_read", "polygon.live",
     "polygon.cache_write", "polygon.failed"}

LiveEvents == {"tiingo.live", "polygon.live", "yfinance.live"}

\* C1: once the primary's fetch has returned (from its cache or from a live
\* call), the call is over with the primary's frame as its result and, in the
\* whole call, Polygon was not requested and its cache file was neither
\* tested, read nor written.
C1_PrimarySuccessSkipsSecondary ==
    \A t \in Tasks :
        Has(log[t], "tiingo.returned") =>
            /\ Range(log[t]) \cap PolygonEvents = {}
            /\ pc[t] = "done"
            /\ outcome[t].status = "ok"
            /\ outcome[t].source \in {"tiingo.cache", "tiingo.live"}

C1_Witness ==
    \E t \in Tasks : \E u \in Tasks :
        /\ pc[t] = "done" /\ outcome[t].source = "tiingo.cache"
        /\ pc[u] = "done" /\ outcome[u].source = "tiingo.live"

\* C4: a file under a cache path is found fresh exactly when it exists and
\* less than 24 hours have passed since its modification time (so not at
\* exactly 24 hours, and never when absent), and every read of a file found
\* fresh returns the stored frame and leaves the file as it was.
C4_FreshWithin24h ==
    [][\A t \in Tasks :
         LET tg == cache[PathOf(t, "tiingo")]
             pg == cache[PathOf(t, "polygon")]
         IN /\ TgStat(t) => ((pc'[t] = "tg_read") <=> (tg.exists /\ now - tg.mtime < 24))
            /\ TgRead(t) => (outcome'[t] = Success(tg.df, "tiingo.cache") /\ tg.state = "complete")
            /\ PgStat(t) => ((outcome'[t].source = "polygon.cache")
                                <=> (pg.exists /\ now - pg.mtime < 24))
            /\ (PgStat(t) /\ outcome'[t].source = "polygon.cache") => outcome'[t].df = pg.df
            /\ (TgStat(t) \/ TgRead(t) \/ PgStat(t)) => cache' = cache
      ]_chainVars

\* the part of C4 that is about the age test alone
C4_AgeTest ==
    [][\A t \in Tasks :
         LET tg == cache[PathOf(t, "tiingo")]
             pg == cache[PathOf(t, "polygon")]
         IN /\ TgStat(t) => ((pc'[t] = "tg_read") <=> (tg.exists /\ now - tg.mtime < 24))
            /\ (TgRead(t) /\ tg.state = "complete") => outcome'[t] = Success(tg.df, "tiingo.cache")
            /\ PgStat(t) => ((outcome'[t].source = "polygon.cache")
                                <=> (pg.exists /\ now - pg.mtime < 24))
            /\ (PgStat(t) /\ outcome'[t].source = "polygon.cache") => outcome'[t].df = pg.df
            /\ (TgStat(t) \/ TgRead(t) \/ PgStat(t)) => cache' = cache
      ]_chainVars

\* C5: a call that found the primary's entry fresh returns the cached frame
\* without a live call to any provider; a call that found it stale or absent
\* has called the primary live before it returns anything.
C5_FreshHitNoLiveCall ==
    \A t \in Tasks :
        pc[t] = "done" =>
            /\ Has(log[t], "tiingo.fresh") =>
                  /\ outcome[t].source = "tiingo.cache"
                  /\ Range(log[t]) \cap LiveEvents = {}
            /\ (Has(log[t], "tiingo.miss") /\ outcome[t].status = "ok") =>
                  Has(log[t], "tiingo.live")

\* the second half of C5 alone
C5_MissCallsPrimary ==
    \A t \in Tasks :
        (pc[t] = "done" /\ Has(log[t], "tiingo.miss") /\ outcome[t].status = "ok") =>
            Has(log[t], "tiingo.live")

\* C7: no read of a cache file that was found fresh meets a file that is not
\* one put's complete frame.
C7_NoTornRead ==
    \A t \in Tasks :
        /\ ~Has(log[t], "tiingo.torn_read")
        /\ pc[t] = "tg_read" => cache[PathOf(t, "tiingo")].state = "complete"


\* position of the last occurrence of e in s (0 when there is none)
LastIndex(s, e) ==
    IF Has(s, e) THEN CHOOSE i \in DOMAIN s : s[i] = e /\ \A j \in DOMAIN s : s[j] = e => j <= i
    ELSE 0

\* the primary's live answer in this call is a non-empty table without one of
\* the columns the full-OHLC shape needs
LacksHighLow(t) ==
    /\ req[t].full_ohlc
    /\ answer[t] # <<>>
    /\ IF chain[t] = "tiingo"
       THEN /\ LastIndex(log[t], "tiingo.live") > 0
            /\ ~({"high", "low"} \subseteq {Lower(c) : c \in Range(answer[t])})
            /\ ~Has(log[t], "NetworkError")
       ELSE /\ ~({"High", "Low"} \subseteq Range(answer[t]))
            /\ LastIndex(log[t], "yfinance.live") > 0
            /\ log[t][LastIndex(log[t], "yfinance.live") + 1] # "NetworkError"
    /\ ~Has(log[t], "ValueError")

PrimaryLive(t) == IF chain[t] = "tiingo" THEN "tiingo.live" ELSE "yfinance.live"

PrimaryFailed(t) == IF chain[t] = "tiingo" THEN "tiingo.failed" ELSE "yfinance.failed"

\* C9: when the primary's live answer lacks a column that the full-OHLC shape
\* requires, the primary is not called again in that call (the answer is its
\* last live call and the call has left the primary), the call writes no cache
\* file for the primary's key, and the call goes on to Polygon.
C9_MissingColumnAdvances ==
    \A t \in Tasks :
        LacksHighLow(t) =>
            /\ pc[t] \in {"pg_stat", "pg_live", "pg2_live", "done"}
            /\ log[t][LastIndex(log[t], PrimaryLive(t)) + 1] = "KeyError"
            /\ log[t][LastIndex(log[t], PrimaryLive(t)) + 2] = PrimaryFailed(t)
            /\ chain[t] = "tiingo" => Count(log[t], "tiingo.live") = 1
            /\ ~Has(log[t], "tiingo.cache_write")
            /\ ~Has(log[t], "tiingo.returned") /\ ~Has(log[t], "yfinance.returned")
            /\ pc[t] = "done" => /\ Range(log[t]) \cap PolygonEvents # {}
                                 /\ outcome[t].source \notin {"tiingo.live", "yfinance.live"}

C9_Witness ==
    /\ LacksHighLow("a") /\ chain["a"] = "tiingo" /\ pc["a"] = "done"
    /\ Has(log["a"], "polygon.live")

\* the same for the chain without a cache, after a retried download
C9_WitnessYfinance ==
    /\ LacksHighLow("a") /\ chain["a"] = "yfinance" /\ pc["a"] = "done"
    /\ Count(log["a"], "yfinance.live") = 2

\* the log entries that follow each live call of a provider
AfterLive(t, live) == {log[t][i + 1] : i \in {j \in DOMAIN log[t] : log[t][j] = live /\ j < Len(log[t])}}

TransientErrors == {"NetworkError", "FetchError", "ValueError"}

ProducerOf(o) ==
    CASE o.source = "sector" -> "sector"
      [] o.source \in {"yfinance.live", "polygon.live"} -> "ticker"
      [] o.source = "trends" -> "trends"
      [] o.source = "news" -> "news"
      [] OTHER -> ""

Gathered == a_pc \in {"summary", "returned"} /\ intent.type = "analysis"

\* C2: once gather has returned, for every intent (0 to 4 tasks), every order
\* in which the tasks completed and every set of failed tasks, chart_results
\* has one element per submitted task, and element k is what the task
\* submitted at position k returned or raised.
C2_GatherPositional ==
    Gathered =>
        /\ chart_tasks = BuildTasks(intent)
        /\ Len(chart_results) = Len(chart_tasks)
        /\ \A k \in DOMAIN chart_tasks :
             /\ chart_results[k] = settled[k]
             /\ chart_results[k].status \in {"ok", "error"}
             /\ chart_results[k].status = "ok" => ProducerOf(chart_results[k]) = chart_tasks[k]

\* four tasks that completed in the reverse of their submission order, the
\* ticker task failed and the trends task succeeded
C2_Witness ==
    /\ a_pc = "returned"
    /\ chart_tasks = <<"sector", "ticker", "trends", "news">>
    /\ completed = <<4, 3, 2, 1>>
    /\ chart_results[2].status = "error"
    /\ chart_results[3].status = "ok"

\* C3: while the batch is in flight every task that is not done can take its
\* next step, whatever its siblings have raised; and once gather has returned,
\* every task that returned a frame has that frame in chart_results, the
\* trends task succeeded if its fetch was going to, the news task succeeded,
\* and the sector task fails only when its own pd.concat raises and otherwise
\* returns a frame with a column for every other sector whose chain succeeds,
\* whether or not the Technology fetch failed.
C3_FailureNeverCancelsSibling ==
    /\ \A kind \in {"sector", "ticker", "trends", "news"} :
         Pending(kind) => ENABLED TaskStep(kind)
    /\ Gathered =>
         \A k \in DOMAIN chart_tasks :
            /\ settled[k].status = "ok" =>
                 k \in DOMAIN chart_results /\ chart_results[k] = settled[k]
            /\ chart_tasks[k] = "trends" /\ fate.trends.status = "ok" =>
                 k \in DOMAIN chart_results /\ chart_results[k].status = "ok"
            /\ chart_tasks[k] = "news" =>
                 k \in DOMAIN chart_results /\ chart_results[k].status = "ok"
            /\ chart_tasks[k] = "sector" =>
                 /\ k \in DOMAIN chart_results
                 /\ chart_results[k].status = "error" =>
                      chart_results[k].err = "InvalidIndexError"
                 /\ chart_results[k].status = "ok" =>
                      fate.others \subseteq Range(chart_results[k].df.cols)

\* of four tasks the first to complete failed and the last to complete, after
\* it, succeeded
C3_Witness ==
    /\ a_pc = "returned"
    /\ Len(chart_tasks) = 4
    /\ settled[completed[1]].status = "error"
    /\ chart_results[completed[4]].status = "ok"
    /\ chart_results[1].df.cols = SectorCols(sector_etfs, Sectors \ {"Technology"})

\* C6: a call of fetch_stock_price_data that is over has failed exactly when
\* its primary failed and Polygon failed after it; whenever the primary failed
\* Polygon was asked (or its cached frame read); the call fails at most once;
\* and the failure of the ticker task is the element of chart_results at the
\* task's position, with the other elements in place.
C6_FailsIffAllProvidersFailed ==
    /\ \A t \in Tasks :
         pc[t] = "done" =>
            /\ outcome[t].status \in {"ok", "error"}
            /\ outcome[t].status = "error" <=>
                 (Has(log[t], PrimaryFailed(t)) /\ Has(log[t], "polygon.failed"))
            /\ Has(log[t], PrimaryFailed(t)) =>
                 Has(log[t], "polygon.live") \/ Has(log[t], "polygon.cache_read")
            /\ Count(log[t], "polygon.failed") <= 1
            /\ Has(log[t], "polygon.failed") => log[t][Len(log[t])] = "polygon.failed"
    /\ \A t \in Tasks : pc[t] \notin {"idle", "done"} => ~Has(log[t], "polygon.failed")
    /\ a_pc \in {"gather", "summary", "returned"} /\ "ticker" \in Range(chart_tasks)
       /\ ~Pending("ticker") =>
            /\ settled[PositionOf("ticker")].status \in {"ok", "error"}
            /\ settled[PositionOf("ticker")].status = "error" =>
                 settled[PositionOf("ticker")].err \in {"FetchError", "KeyError"}
    /\ Gathered /\ "ticker" \in Range(chart_tasks) =>
            /\ Len(chart_results) = Len(chart_tasks)
            /\ chart_results[PositionOf("ticker")] = settled[PositionOf("ticker")]

\* yfinance and Polygon both failed for the ticker; the batch returned with
\* the failure in its place and the charts of the other tasks were built
C6_Witness ==
    /\ a_pc = "returned"
    /\ chart_tasks = <<"sector", "ticker", "trends", "news">>
    /\ chart_results[2].status = "error"
    /\ Len(output.charts) = 3

(***************************************************************************)
(* Claims about the news sentiment fetch.                                  *)
(***************************************************************************)
RowSum(row) == row["positive"][1] + row["neutral"][1] + row["negative"][1]

\* C10: the frame returned has five rows; row k is dated the k-th day of the
\* five days that end the day before today, so the dates are consecutive and
\* ascending; and its three counts add up to the number of descriptions the
\* fetch of that day returned, which is 0 when that fetch failed.
C10_FiveRowsCountsSum ==
    n_pc = "returned" =>
        /\ Len(news_df.rows) = 5
        /\ \A k \in 1..5 :
             /\ news_df.rows[k]["date"] = Val(Strftime(today - 6 + k))
             /\ k < 5 => DateLess(news_df.rows[k]["date"][1], news_df.rows[k + 1]["date"][1])
             /\ RowSum(news_df.rows[k]) = Len(batches[k].headlines)
             /\ batches[k].failed => RowSum(news_df.rows[k]) = 0

\* a window over the turn of the year; one day failed, one returned nothing,
\* one returned a missing description and a negative one
C10_Witness ==
    /\ n_pc = "returned"
    /\ today = 10
    /\ batches[2].failed
    /\ ~batches[1].failed /\ batches[1].headlines = <<>>
    /\ Len(batches[4].headlines) = 2
    /\ batches[4].headlines[1].text = "None"
    /\ batches[4].headlines[2].compound = -20

\* the label of one description, and the row of a day that returned "headlines"
LabelOf(h) ==
    IF h.text \in {"None", ""} THEN "neutral"
    ELSE IF h.compound >= 20 THEN "positive"
    ELSE IF h.compound <= -20 THEN "negative"
    ELSE "neutral"

RowAlone(day, headlines) ==
    Row(NewsCols,
        <<Val(Strftime(day)),
          Val(Cardinality({j \in DOMAIN headlines : LabelOf(headlines[j]) = "positive"})),
          Val(Cardinality({j \in DOMAIN headlines : LabelOf(headlines[j]) = "neutral"})),
          Val(Cardinality({j \in DOMAIN headlines : LabelOf(headlines[j]) = "negative"}))>>)

\* C11: whichever of the five day fetches fail (the request raises or the
\* status is an error), the call still returns its frame of five rows; the row
\* of a failed day has three zero counts; and the row of every other day is the
\* row its own descriptions give, as when no day fails.
C11_FailedDaysAreZeroRows ==
    /\ n_pc = "gather" /\ (\A k \in 1..5 : batches[k].state = "done") => ENABLED NewsFinish
    /\ n_pc = "returned" =>
         /\ news_df.cols = NewsCols
         /\ Len(news_df.rows) = 5
         /\ \A k \in 1..5 :
              /\ batches[k].state = "done"
              /\ batches[k].failed => news_df.rows[k] = RowAlone(today - 6 + k, <<>>)
              /\ ~batches[k].failed =>
                    news_df.rows[k] = RowAlone(today - 6 + k, batches[k].headlines)

\* days 1 and 3 failed, day 2 returned a positive description
C11_Witness ==
    /\ n_pc = "returned"
    /\ batches[1].failed /\ batches[3].failed
    /\ ~batches[2].failed /\ Len(batches[2].headlines) = 1
    /\ news_df.rows[2]["positive"] = Val(1)
    /\ news_df.rows[1]["neutral"] = Val(0)

\* C12: the list returned has one label per snippet, in the order of the
\* snippets; each label is one of the three classes; a missing or empty text
\* is neutral; any other text is positive for a compound score of 0.2 or more,
\* negative for -0.2 or less, and neutral for every score strictly between.
C12_OneLabelPerSnippet ==
    cl_pc = "returned" =>
        /\ Len(cl_labels) = Len(cl_headlines)
        /\ \A k \in DOMAIN cl_headlines :
             LET h == cl_headlines[k]
             IN /\ cl_labels[k] \in {"positive", "neutral", "negative"}
                /\ h.text \in {"None", ""} => cl_labels[k] = "neutral"
                /\ h.text \notin {"None", ""} =>
                     /\ h.compound >= 20 <=> cl_labels[k] = "positive"
                     /\ h.compound <= -20 <=> cl_labels[k] = "negative"
                     /\ (-20 < h.compound /\ h.compound < 20) <=> cl_labels[k] = "neutral"

\* a score of exactly 0.2 before a score of exactly -0.2
C12_Witness ==
    /\ cl_pc = "returned"
    /\ cl_headlines = <<[text |-> "text", compound |-> 20], [text |-> "text", compound |-> -20]>>
    /\ cl_labels = <<"positive", "negative">>

\* the title and the chart type main.py gives the chart of each kind of task
TitleOf(kind) ==
    CASE kind = "sector" -> <<"Sector Growth (Typical Price)">>
      [] kind = "ticker" -> <<intent.ticker, "Stock Price">>
      [] kind = "trends" -> <<intent.subject, "Search Trends">>
      [] kind = "news" -> <<intent.subject, "News Sentiment">>

TypeOf(kind) == IF kind = "news" THEN "bar" ELSE "line"

ChartsTitled(title) == {j \in DOMAIN output.charts : output.charts[j].title = title}

\* C13: in the response, a task that raised has no chart under its title,
\* and every task of the batch that returned a frame whose formatting did
\* not raise has exactly one chart under its title, holding that frame,
\* whatever the other tasks did; the
\* sector chart lists every other sector whose chain succeeded.
C13_FailedTaskOnlyLosesItsChart ==
    Gathered =>
        \A k \in DOMAIN chart_tasks :
            /\ settled[k].status = "error" => ChartsTitled(TitleOf(chart_tasks[k])) = {}
            /\ settled[k].status = "ok" /\ chart_tasks[k] \notin format_errors =>
                 /\ Cardinality(ChartsTitled(TitleOf(chart_tasks[k]))) = 1
                 /\ \A j \in ChartsTitled(TitleOf(chart_tasks[k])) :
                      /\ output.charts[j].data = settled[k].df
                      /\ chart_tasks[k] = "sector" =>
                           fate.others \subseteq Range(output.charts[j].legend)

\* the ticker and the trends tasks failed; the sector chart, without the
\* Technology and Energy columns, and the news chart are in the response
C13_Witness ==
    /\ a_pc = "returned"
    /\ chart_tasks = <<"sector", "ticker", "trends", "news">>
    /\ settled[2].status = "error" /\ settled[3].status = "error"
    /\ Len(output.charts) = 2
    /\ output.charts[1].legend = SectorCols(sector_etfs, Sectors \ {"Technology", "Energy"})
    /\ output.charts[2].title = <<"nvidia", "News Sentiment">>

\* C14: for every intent, each chart of the response stands under the title
\* and chart type of one submitted task and holds the frame gathered at that
\* task's position, which that task produced; the charts are as many as the
\* gathered frames whose formatting did not raise.
C14_OutcomeRenderedUnderItsTask ==
    Gathered =>
        /\ Len(output.charts) =
             Cardinality({k \in DOMAIN chart_results :
                            /\ chart_results[k].status = "ok"
                            /\ chart_tasks[k] \notin format_errors})
        /\ \A j \in DOMAIN output.charts :
             \E k \in DOMAIN chart_tasks :
                /\ output.charts[j].title = TitleOf(chart_tasks[k])
                /\ output.charts[j].type = TypeOf(chart_tasks[k])
                /\ k \in DOMAIN chart_results
                /\ chart_results[k].status = "ok"
                /\ output.charts[j].data = chart_results[k].df
                /\ ProducerOf(chart_results[k]) = chart_tasks[k]

\* no sector in the intent: the ticker's outcome is gathered first
C14_Witness ==
    /\ a_pc = "returned"
    /\ chart_tasks = <<"ticker", "trends", "news">>
    /\ Len(output.charts) = 3
    /\ output.charts[1].title = <<"XLK", "Stock Price">>
    /\ output.charts[1].data = chart_results[1].df
    /\ output.charts[2].data = trendsA

(***************************************************************************)
(* Claims about the normalised price series.                               *)
(***************************************************************************)
Returned == nz_pc \in {"normalized", "again"} /\ nz_out.ok

DateAt(df, k) == df.rows[k]["Date"][1]

\* C15: every frame a provider's normalisation returns has its rows in
\* strictly ascending order of date (so no two rows share a date), a Close
\* value in every row, and the columns High and Low exactly when the full
\* OHLC shape was asked for.
C15_SortedUniqueDatesAndShape ==
    Returned =>
        /\ \A k \in DOMAIN nz_out.df.rows :
             /\ nz_out.df.rows[k]["Close"] # NaN
             /\ k > 1 => DateAt(nz_out.df, k - 1) < DateAt(nz_out.df, k)
        /\ HasCols(nz_out.df, <<"Date", "Close">>)
        /\ HasCols(nz_out.df, <<"High", "Low">>) <=> nz_in.full_ohlc

\* the part of C15 that is about the columns alone
C15_Columns ==
    Returned => nz_out.df.cols = expected_cols(nz_in.full_ohlc)


\* C16: normalisation is idempotent: a provider's normalisation steps applied
\* to a series that those steps produced succeed and yield the same series,
\* for the close-only and the full-OHLC shape
C16_NormalizeIdempotent ==
    nz_pc = "again" => nz_again.ok /\ nz_again.df = nz_out.df

\* the part of C16 that the code keeps: the steps of fetch_from_tiingo, and
\* those of get_yfinance_df on a series that has a row, are idempotent
C16_IdempotentWhereRerunnable ==
    /\ nz_pc = "again"
    /\ \/ nz_in.provider = "tiingo"
       \/ nz_in.provider = "yfinance" /\ Len(nz_out.df.rows) > 0
    => nz_again.ok /\ nz_again.df = nz_out.df


Normalized == nz_pc \in {"normalized", "again"}

PolygonAnswered ==
    /\ Normalized
    /\ nz_in.provider = "polygon"
    /\ Len(nz_in.raw.rows) > 0
    /\ HasCols(nz_in.raw, <<"t", "h", "l", "c">>)

\* C19: a non-empty Polygon answer that carries t, h, l and c is mapped to
\* the canonical names, so the fetch succeeds with Date, High, Low, Close
\* for the full-OHLC shape and with Date, Close for the close-only shape
C19_PolygonNamesMapped ==
    PolygonAnswered =>
        /\ nz_out.ok
        /\ nz_out.df.cols = expected_cols(nz_in.full_ohlc)

\* the part of C19 that the code keeps: the close-only shape succeeds, and
\* the full-OHLC shape of such an answer always raises KeyError
C19_OnlyCloseMapped ==
    PolygonAnswered =>
        IF nz_in.full_ohlc
        THEN ~nz_out.ok /\ nz_out.err = "KeyError"
        ELSE nz_out.ok /\ nz_out.df.cols = <<"Date", "Close">>

\* C20: every row of a returned series has a value in every column of the
\* requested shape, whichever provider answered
C20_NoRowLacksARequiredField ==
    Returned =>
        \A k \in DOMAIN nz_out.df.rows :
            \A c \in Range(expected_cols(nz_in.full_ohlc)) :
                c \in DOMAIN nz_out.df.rows[k] /\ nz_out.df.rows[k][c] # NaN

\* the part of C20 that the code keeps: the series of yfinance and of
\* Polygon have no row that lacks a required field
C20_DroppedExceptByTiingo ==
    Returned /\ nz_in.provider # "tiingo" =>
        \A k \in DOMAIN nz_out.df.rows :
            \A c \in Range(expected_cols(nz_in.full_ohlc)) :
                c \in DOMAIN nz_out.df.rows[k] /\ nz_out.df.rows[k][c] # NaN


(***************************************************************************)
(* Claims about the cache files.                                           *)
(***************************************************************************)
Shape(path) == path[4] = "ohlc"

\* the frames a successful fetch for this path can have to write
PayloadsFor(path) ==
    IF path[1] = "tiingo"
    THEN {TiingoNormalize(r.df, Shape(path)).df :
            r \in {x \in TiingoResponses :
                     ~x.raises /\ TiingoNormalize(x.df, Shape(path)).ok}}
    ELSE {PolygonNormalize(r.results, Shape(path)).df :
            r \in {x \in PolygonResponses :
                     PolygonGotData(x) /\ PolygonNormalize(x.results, Shape(path)).ok}}

\* C17: in every reachable state each cache entry holds a payload that a
\* provider returned and that passed normalisation
C17_EntriesHoldNormalizedPayloads ==
    \A p \in Paths :
        cache[p].exists => cache[p].state = "complete" /\ cache[p].df \in PayloadsFor(p)

\* the step in which a provider's fetch fails
FetchFails(t) ==
    \/ pc[t] \in {"tg_stat", "tg_read", "tg_live", "tg_write"} /\ pc'[t] = "pg_stat"
    \/ pc[t] \in {"pg_stat", "pg_live"} /\ outcome'[t].status = "error"

\* the second half of C17 alone: a fetch that fails creates no entry and
\* leaves every entry as it was
C17_FailedFetchWritesNothing ==
    [][\A t \in Tasks : FetchFails(t) => cache' = cache]_vars

\* what C17 comes to in the code: an entry that no writer left torn holds a
\* normalised payload of its provider
C17_WholeEntriesHoldPayloads ==
    \A p \in Paths : cache[p].state = "complete" => cache[p].df \in PayloadsFor(p)

\* C18: when two calls wrote one cache file at overlapping times, the file
\* that the last of them closes is exactly that writer's payload
C18_LastWriterWins ==
    [][\A t \in Tasks :
         ( /\ pc[t] = "tg_close"
           /\ pc'[t] # "tg_close"
           /\ cache[PathOf(t, "tiingo")].overlap
           /\ cache'[PathOf(t, "tiingo")].writers = {} )
         => cache'[PathOf(t, "tiingo")] = WholeFile(frame[t], now)]_vars

\* the write of a call that had the file to itself leaves its own payload
C18_LoneWriterWins ==
    [][\A t \in Tasks :
         ( /\ pc[t] = "tg_close"
           /\ pc'[t] # "tg_close"
           /\ ~cache[PathOf(t, "tiingo")].overlap )
         => cache'[PathOf(t, "tiingo")] = WholeFile(frame[t], now)]_vars


\* C21: a provider fetch never returns an empty series: when no row is left
\* after the rows that lack a required field are dropped, the provider fails
C21_NeverReturnsEmptySeries ==
    Returned => Len(nz_out.df.rows) > 0

\* the part of C21 that the code keeps: a provider answer that has no row
\* at all is refused
C21_EmptyAnswerRefused ==
    Normalized /\ Len(nz_in.raw.rows) = 0 => ~nz_out.ok


(***************************************************************************)
(* Claims about the chains as the orchestrator runs them.                  *)
(***************************************************************************)
ProviderOf(event) ==
    CASE event = "tiingo.live" -> "tiingo"
      [] event = "polygon.live" -> "polygon"
      [] event = "yfinance.live" -> "yfinance"

\* the events of a cache lookup under a provider's key
Lookups(provider) ==
    CASE provider = "tiingo" -> {"tiingo.fresh", "tiingo.miss"}
      [] provider = "polygon" -> {"polygon.fresh", "polygon.miss"}
      [] provider = "yfinance" -> {}

ConsultedBefore(t, i) ==
    \E j \in 1..(i - 1) : log[t][j] \in Lookups(ProviderOf(log[t][i]))

\* C22: every price fetch chain of a request, the ticker price task of
\* /analyze included, looks a provider's cache entry up before it calls that
\* provider live
C22_CacheConsultedBeforeLive ==
    \A t \in Tasks :
        \A i \in DOMAIN log[t] : log[t][i] \in LiveEvents => ConsultedBefore(t, i)

\* the part of C22 that the code keeps: the chains of the caching connector
\* (the sector fetches) look the cache up before each live call
C22_CachingChainConsultsCache ==
    \A t \in Tasks :
        chain[t] = "tiingo" =>
            \A i \in DOMAIN log[t] : log[t][i] \in LiveEvents => ConsultedBefore(t, i)


AttemptsBounded ==
    \A t \in Tasks :
        /\ \A e \in LiveEvents : Count(log[t], e) <= YF_ATTEMPTS
        /\ Count(log[t], "sleep") <= YF_ATTEMPTS

\* C23: one call makes at most 3 live attempts and at most 3 sleeps per
\* provider, and a batch handed to gather eventually has every task settled
\* and returns
C23_BoundedAttemptsAndBatchReturns ==
    /\ []AttemptsBounded
    /\ (a_pc = "gather") ~> (a_pc = "summary")

\* the ticker task used all three downloads and all three sleeps, and its
\* chain has ended
C23_Witness ==
    /\ a_pc = "gather"
    /\ pc["a"] = "done"
    /\ Count(log["a"], "yfinance.live") = YF_ATTEMPTS
    /\ Count(log["a"], "sleep") = YF_ATTEMPTS


\* the step of call t that finds the secondary's entry fresh
SecondaryHit(t) ==
    /\ pc[t] = "pg_stat"
    /\ pc'[t] # "pg_stat"
    /\ is_cache_fresh(PathOf(t, "polygon"))

\* the step of call t in which the secondary's live call succeeds
SecondaryLiveSuccess(t) ==
    /\ pc[t] = "pg_live"
    /\ pc'[t] = "done"
    /\ outcome'[t].status = "ok"

\* C24: after the primary failed, a fresh secondary entry is returned with no
\* live secondary call, and a live secondary success writes the secondary's
\* entry of the call's (ticker, period, shape) and no other entry
C24_SecondaryUsesOwnKey ==
    [][\A t \in Tasks :
         /\ SecondaryHit(t) =>
              /\ outcome'[t] = Success(cache[PathOf(t, "polygon")].df, "polygon.cache")
              /\ ~Has(log'[t], "polygon.live")
              /\ cache' = cache
         /\ SecondaryLiveSuccess(t) =>
              /\ cache'[PathOf(t, "polygon")] = WholeFile(outcome'[t].df, now)
              /\ \A p \in Paths : p # PathOf(t, "polygon") => cache'[p] = cache[p]]_vars

\* a call whose primary failed was served from the secondary's fresh entry
C24_Witness ==
    \E t \in Tasks :
        /\ pc[t] = "done"
        /\ Has(log[t], "tiingo.failed")
        /\ outcome[t].source = "polygon.cache"
        /\ cache[PathOf(t, "polygon")].exists


\* C25: in whatever order the five day fetches complete, row k of the frame
\* carries the start date of the k-th date range and the counts of the
\* headlines fetched for that range
C25_RowFromItsOwnDay ==
    /\ \A k \in 1..5 :
         batches[k].state = "done" => batches[k].from_date = date_ranges(today)[k][1]
    /\ n_pc = "returned" =>
         /\ Len(news_df.rows) = 5
         /\ \A k \in 1..5 :
              /\ news_df.rows[k]["date"] = Val(batches[k].from_date)
              /\ news_df.rows[k] = RowAlone(today - 6 + k, batches[k].headlines)

\* a later day's fetch completed before an earlier one, and the first and the
\* last day brought headlines of different classes
C25_Witness ==
    /\ n_pc = "returned"
    /\ overtaken
    /\ Len(batches[1].headlines) = 1 /\ LabelOf(batches[1].headlines[1]) = "positive"
    /\ Len(batches[5].headlines) = 1 /\ LabelOf(batches[5].headlines[1]) = "negative"
    /\ news_df.rows[1]["positive"] = Val(1)
    /\ news_df.rows[5]["negative"] = Val(1)


\* a step of call t that tests or reads a cache file
LookupStep(t) == pc[t] \in {"tg_stat", "tg_read", "pg_stat"} /\ pc'[t] # pc[t]

\* a step of call t that follows a successful live fetch and stores its frame
StoreStep(t) ==
    \/ pc[t] \in {"tg_write", "tg_close"} /\ pc'[t] # pc[t]
    \/ SecondaryLiveSuccess(t)

Age(path) == now - cache[path].mtime

\* C26: a cache hit changes neither the entry nor its write time, an entry
\* is a miss once 24 hours have passed since it was written however often it
\* was served, and only the store after a successful live fetch rewrites it
C26_HitsDoNotRenew ==
    [][/\ \A t \in Tasks : LookupStep(t) => cache' = cache
       /\ \A t \in Tasks :
            ( /\ pc[t] = "tg_stat" /\ pc'[t] # "tg_stat"
              /\ cache[PathOf(t, "tiingo")].exists
              /\ Age(PathOf(t, "tiingo")) >= MAX_CACHE_AGE_HOURS )
            => pc'[t] # "tg_read" /\ Has(log'[t], "tiingo.miss")
       /\ \A t \in Tasks :
            ( /\ pc[t] = "pg_stat" /\ pc'[t] # "pg_stat"
              /\ cache[PathOf(t, "polygon")].exists
              /\ Age(PathOf(t, "polygon")) >= MAX_CACHE_AGE_HOURS )
            => Has(log'[t], "polygon.miss")
       /\ cache' # cache => \E t \in Tasks : StoreStep(t)]_vars

\* an entry that one call was served from is, 24 hours after it was written,
\* a miss for the next call
C26_Witness ==
    \E t, u \in Tasks :
        /\ t # u
        /\ PathOf(t, "tiingo") = PathOf(u, "tiingo")
        /\ pc[u] = "done" /\ Has(log[u], "tiingo.cache_read")
        /\ pc[t] = "tg_live" /\ log[t] = <<"tiingo.miss">>
        /\ cache[PathOf(t, "tiingo")].state = "complete"
        /\ Age(PathOf(t, "tiingo")) = MAX_CACHE_AGE_HOURS


\* the events of a call's log from the i-th on
After(t, i) == {log[t][j] : j \in i..Len(log[t])}

\* C27: a failure of cache I/O on the primary's key is a failure of the
\* primary: when the read of an entry found fresh raises, the call goes to
\* the secondary without a live call of the primary, and when the write
\* raises after a live fetch, the fetched frame is not returned and the call
\* goes to the secondary
C27_CacheErrorFailsPrimary ==
    \A t \in Tasks :
        /\ Has(log[t], "tiingo.torn_read") =>
              /\ ~Has(log[t], "tiingo.live")
              /\ log[t][LastIndex(log[t], "tiingo.torn_read") + 1] = "tiingo.failed"
              /\ pc[t] \in {"pg_stat", "pg_live", "done"}
              /\ pc[t] = "done" => /\ Range(log[t]) \cap PolygonEvents # {}
                                   /\ outcome[t].source \notin {"tiingo.cache", "tiingo.live"}
        /\ Has(log[t], "tiingo.write_error") =>
              /\ log[t][LastIndex(log[t], "tiingo.write_error") - 1] = "tiingo.live"
              /\ log[t][LastIndex(log[t], "tiingo.write_error") + 1] = "tiingo.failed"
              /\ After(t, LastIndex(log[t], "tiingo.write_error")) \cap
                    {"tiingo.live", "tiingo.returned"} = {}
              /\ pc[t] \in {"pg_stat", "pg_live", "done"}
              /\ pc[t] = "done" => /\ Range(log[t]) \cap PolygonEvents # {}
                                   /\ outcome[t].source \notin {"tiingo.cache", "tiingo.live"}

\* the write of a fetched frame raised, and the call ended with Polygon's
\* failure although Tiingo had answered
C27_Witness ==
    \E t \in Tasks :
        /\ pc[t] = "done"
        /\ Has(log[t], "tiingo.write_error")
        /\ frame[t] # NoFrame
        /\ outcome[t].status = "error"

\* the read of an entry found fresh raised, and the call went on to request
\* Polygon
C27_WitnessRead ==
    \E t \in Tasks :
        /\ pc[t] = "done"
        /\ Has(log[t], "tiingo.torn_read")
        /\ Has(log[t], "polygon.live")


\* period strings: <N>mo, <N>y, and strings of neither form
PeriodStrings ==
    {<<"6", "m", "o">>, <<"1", "2", "m", "o">>, <<"1", "y">>, <<"2", "y">>, <<"5", "d">>,
     <<"m", "o">>, <<"y">>, <<"x", "m", "o">>, <<"6", "m">>, <<>>}

CacheWrites == {"tiingo.cache_write", "polygon.cache_write"}

\* C28: in the caching chain a call whose period is not <N>mo or <N>y finds
\* no entry, makes no request to either provider, writes no entry and fails,
\* each provider testing its cache before the period; and for every period
\* both providers derive the same lookback, 30 days a month and 365 a year
C28_InvalidPeriodFailsWithoutCalls ==
    /\ \A t \in Tasks :
         (chain[t] = "tiingo" /\ pc[t] # "idle" /\ ~ParsePeriod(req[t].period).ok) =>
             /\ Range(log[t]) \cap (LiveEvents \cup CacheWrites) = {}
             /\ ~cache[PathOf(t, "tiingo")].exists /\ ~cache[PathOf(t, "polygon")].exists
             /\ pc[t] \in {"tg_stat", "pg_stat", "done"}
             /\ pc[t] = "pg_stat" => log[t] = <<"tiingo.miss", "ValueError", "tiingo.failed">>
             /\ pc[t] = "done" =>
                   /\ outcome[t] = Failure("ValueError")
                   /\ log[t] = <<"tiingo.miss", "ValueError", "tiingo.failed",
                                 "polygon.miss", "ValueError", "polygon.failed">>
    /\ \A p \in PeriodStrings :
         /\ ParsePeriod(p) = PolygonLookback(p)
         /\ ParsePeriod(p).ok =>
               \/ EndsWith(p, <<"m", "o">>) /\ ParsePeriod(p).days = 30 * IntOf(DropLast(p, 2)).n
               \/ EndsWith(p, <<"y">>) /\ ParsePeriod(p).days = 365 * IntOf(DropLast(p, 1)).n
    /\ ParsePeriod(<<"1", "2", "m", "o">>).days = 360
    /\ PolygonLookback(<<"2", "y">>).days = 730

\* a call of the caching chain for the period "5d" has failed
C28_Witness ==
    /\ pc["a"] = "done"
    /\ chain["a"] = "tiingo"
    /\ req["a"].period = <<"5", "d">>
    /\ outcome["a"].status = "error"
    /\ Len(log["a"]) = 6


(***************************************************************************)
(* Claims about get_sector_typical_prices and /analyze as a whole.         *)
(***************************************************************************)
\* the step in which get_sector_typical_prices returns or raises
SectorSettling == Pending("sector") /\ settled'[PositionOf("sector")] # NoOutcome

\* the sectors whose fetch chain succeeded
SucceededSectors ==
    fate.others \cup (IF outcome["b"].status = "ok" THEN {"Technology"} ELSE {})

SectorIndex(name) == CHOOSE k \in DOMAIN sector_etfs : sector_etfs[k][1] = name

InSectorOrder(cols) ==
    \A i, j \in DOMAIN cols : i < j => SectorIndex(cols[i]) < SectorIndex(cols[j])

\* one column per sector whose chain succeeded, in the order of sector_etfs
OneColumnPerSucceeded(o) ==
    /\ o.status = "ok"
    /\ Range(o.df.cols) = SucceededSectors
    /\ Len(o.df.cols) = Cardinality(SucceededSectors)
    /\ InSectorOrder(o.df.cols)

\* C29: get_sector_typical_prices does not raise: it returns a table with one
\* column per sector whose fetch chain succeeded, in the configured order,
\* without the sectors whose chain was exhausted, and an empty table when
\* every sector failed
C29_SectorTableOfSucceeded ==
    [][SectorSettling => OneColumnPerSucceeded(settled'[PositionOf("sector")])]_vars

\* the part of C29 that the code keeps: no failure of a fetch chain makes it
\* raise; it raises only when a chain succeeded with a series that repeats a
\* date, and otherwise returns the table of the sectors that succeeded
C29_FetchFailureNeverRaises ==
    [][SectorSettling =>
         IF settled'[PositionOf("sector")].status = "ok"
         THEN OneColumnPerSucceeded(settled'[PositionOf("sector")])
         ELSE /\ outcome["b"].status = "ok"
              /\ RepeatsADate(outcome["b"].df)
              /\ fate.others # {}]_vars

\* every sector failed and the table is empty
C29_AllFailed ==
    /\ "sector" \in Range(chart_tasks)
    /\ fate.others = {}
    /\ settled[PositionOf("sector")] = Success(NoFrame, "sector")


\* the place of a chart in the response's order, by its title
RankOf(title) ==
    CASE title = TitleOf("sector") -> 1
      [] title = TitleOf("ticker") -> 2
      [] title = TitleOf("trends") -> 3
      [] title = TitleOf("news") -> 4
      [] OTHER -> 0

NoTaskStarted ==
    /\ chart_tasks = <<>> /\ settled = <<>> /\ completed = <<>>
    /\ \A t \in Tasks : pc[t] = "idle"

\* C30: whatever a chart task, the formatting of a chart or the summary
\* step raised, the response of /analyze has exactly the keys summary and
\* charts; its charts stand in the order sector, ticker, search trends, news
\* sentiment; and when get_subject_and_focus_from_agent raised or the intent
\* is a direct answer, no chart task was started and charts is empty.
C30_AnalyzeAlwaysReturns ==
    /\ DOMAIN output = {"summary", "charts"}
    /\ \A j, k \in DOMAIN output.charts :
         /\ RankOf(output.charts[j].title) \in 1..4
         /\ j < k => RankOf(output.charts[j].title) < RankOf(output.charts[k].title)
    /\ a_pc = "returned" /\ intent.type # "analysis" =>
         NoTaskStarted /\ output.charts = <<>>
    /\ a_pc = "summary" => ENABLED A_Summary
    /\ a_pc \in {"gather", "summary"} => intent.type = "analysis"

\* the ticker task raised, the formatting of the sector chart raised and the
\* summary step raised: the response holds the trends and the news chart
C30_Witness ==
    /\ a_pc = "returned"
    /\ chart_tasks = <<"sector", "ticker", "trends", "news">>
    /\ settled[1].status = "ok" /\ settled[2].status = "error"
    /\ format_errors = {"sector"}
    /\ output.summary = ""
    /\ Len(output.charts) = 2
    /\ output.charts[1].title = TitleOf("trends")
    /\ output.charts[2].title = TitleOf("news")

\* get_subject_and_focus_from_agent raised: the response is the empty output
C30_WitnessIntentRaised ==
    /\ a_pc = "returned"
    /\ intent = NoIntent
    /\ output = NoOutput
    /\ NoTaskStarted


====
